---- MODULE Spec2Model ----
(***************************************************************************)
(* Model of the negotiation-game server (server.js): the in-memory stores  *)
(* users / rooms / pairs, the socket.io handlers that mutate them, and the *)
(* matchmaking functions shouldPlayerBeBuyer, findOptimalPartner and       *)
(* createGamePairs, the offer extractor, and the persistence layer        *)
(* (PersistenceManager over the PostgreSQL schema) the handlers call.      *)
(*                                                                         *)
(* Roles follow the source: "A" is the Seller, "B" is the Buyer.           *)
(* Math.random() is a nondeterministic choice: an operator that draws at   *)
(* random returns the SET of results it can produce.                       *)
(***************************************************************************)
EXTENDS Integers, Sequences, FiniteSets, TLC

\* ------------------------------------------------------------------ bounds
NUsers == 4          \* participant ids
MaxHistory == 3      \* rounds of role history a participant accumulates
NParticipants == 3   \* survey submissions the server receives (pairing)
NNegotiators == 2    \* survey submissions the server receives (sessions, chat)
NRooms == 1          \* room ids clients name
MaxPairs == 2        \* pair objects the server creates
MaxRounds == 1       \* moderator:startRound commands per room
MaxStarts == 2       \* the same where round starts overlap
NRoomsEnd == 2       \* rooms where a round is ended in one of them
MaxCandidates == 2   \* scored candidates handed to the selection on its own
MaxGets == 2         \* getUser / ensureRoom calls where they overlap
MaxRoomPairs == 1    \* pairs the rooms module creates
MaxMessages == 2     \* chat messages per pair
MaxBatch == 2        \* handlers suspended on a resolved promise at once
MaxTimers == 2       \* pending auto-pairing timers per room
MaxTicks == 1        \* clock steps
MaxElapsed == 6      \* quarter seconds the fine clock runs
MaxSeconds == 3800   \* seconds formatDuration is given
MaxRows == 2         \* user rows the persistence layer is asked to create
MaxStoredPairs == 1  \* pair rows the persistence layer is asked to create
MaxSaved == 1        \* messages the persistence layer is asked to save
MaxInFlight == 1     \* persistence calls suspended at once

\* ------------------------------------------------------------------ values
UserIds == 1..NUsers
\* Connections: the browser of participant u is connection u and names user u in
\* joinRoom; the moderator dashboard is one more connection.
Dashboard == NUsers + 1
SocketIds == (1..NParticipants) \cup {Dashboard}
RoomIds == 1..NRooms
Undefined == 0       \* JS undefined / null where an id, a price or a time is expected
NoRole == "none"     \* user.role before the first pairing (null / undefined)
NullOffer == -1      \* offer: null
NoPrice == Undefined \* confirmDeal without a price; a confirmPrice never set
Prices == {250, 260}
NProducts == 3       \* products of a configured room
TickMs == 500        \* milliseconds per clock step
QuarterMs == 250     \* milliseconds per step of the fine clock

\* Confidences are kept in units of 1/10000, which holds every product the
\* scoring can form (0.3 * 0.7 * 1.3 * 1.2 = 0.3276) exactly.
BaseConfidence == 3000
ModelConfidence == 500
OfferPhraseConfidence == 9000
RejectionFloor == 2000
ConfidenceFloor == 1000
WindowChars == 30


VARIABLES
    userObj,   \* the user objects: id -> record (the heap behind `users`)
    lastRun,   \* the last stand-alone createGamePairs call: pool, result, draws
    users,     \* the ids that are keys of the `users` store
    rooms,     \* the `rooms` store: room id -> room
    pairObj,   \* the pair objects ever created: pair id -> record
    pairs,     \* the ids that are keys of the `pairs` store (the session table)
    sockets,   \* the connections: state and socket.data
    timers,    \* pending setTimeout(checkForAutoPairing) callbacks per room
    micro,     \* chatMessage handlers suspended at `await extractOffer`, in order
    rounds,    \* startRound handlers suspended on a durable-store call
    now,       \* the clock, in milliseconds
    submitted, \* observer: per session and member, the last price they confirmed in it
    arrived, \* observer: the chat messages that passed validation, in arrival order
    lastCall, \* the last stand-alone call of a pure function: name, argument, result
    emitted, \* observer: the last errors and deliveries one handler step emitted
    db, \* the durable store: reachable or not, and its tables
    cache, \* PersistenceManager.cache: users, rooms, pairs by id
    calls  \* PersistenceManager calls suspended at their await Database call

vars == <<userObj, lastRun, users, rooms, pairObj, pairs, sockets, timers, micro,
          rounds, now, submitted, arrived, lastCall, emitted, db, cache, calls>>

\* ------------------------------------------------------- sequence helpers
Includes(seq, x) == \E i \in DOMAIN seq : seq[i] = x

Count(seq, x) == Cardinality({i \in DOMAIN seq : seq[i] = x})

IndexOf(seq, x) ==
    IF Includes(seq, x) THEN CHOOSE i \in DOMAIN seq : seq[i] = x /\ \A j \in 1..(i-1) : seq[j] # x
    ELSE 0

RemoveAt(seq, i) == SubSeq(seq, 1, i-1) \o SubSeq(seq, i+1, Len(seq))

Swap(seq, i, j) == [seq EXCEPT ![i] = seq[j], ![j] = seq[i]]

Range(seq) == {seq[i] : i \in DOMAIN seq}

Front(seq) == SubSeq(seq, 1, Len(seq) - 1)

Last(seq) == seq[Len(seq)]

\* ---------------------------------------------------------- offer extractor
\* A text is a sequence of one-character strings.
DigitChars == <<"0", "1", "2", "3", "4", "5", "6", "7", "8", "9">>

IsDigit(c) == Includes(DigitChars, c)

DigitValue(c) == IndexOf(DigitChars, c) - 1

UpperChars == <<"A", "B", "C", "D", "E", "F", "G", "H", "I", "J", "K", "L", "M",
                "N", "O", "P", "Q", "R", "S", "T", "U", "V", "W", "X", "Y", "Z">>

LowerChars == <<"a", "b", "c", "d", "e", "f", "g", "h", "i", "j", "k", "l", "m",
                "n", "o", "p", "q", "r", "s", "t", "u", "v", "w", "x", "y", "z">>

toLowerCase(text) ==
    [i \in DOMAIN text |->
        IF Includes(UpperChars, text[i]) THEN LowerChars[IndexOf(UpperChars, text[i])]
        ELSE text[i]]

\* text.substring(from, to) with 0-based JS indices, clamped as JS clamps them.
Min(a, b) == IF a < b THEN a ELSE b

Max(a, b) == IF a > b THEN a ELSE b

substring(text, from, to) ==
    LET f == Min(Max(from, 0), Len(text))
        t == Min(Max(to, 0), Len(text))
    IN  SubSeq(text, Min(f, t) + 1, Max(f, t))

\* text.indexOf(part): 0-based index of the first occurrence, -1 if none.
OccursAt(text, part, i) ==
    /\ i + Len(part) <= Len(text)
    /\ \A k \in 1..Len(part) : text[i + k] = part[k]

indexOf(text, part) ==
    IF \E i \in 0..Len(text) : OccursAt(text, part, i)
    THEN CHOOSE i \in 0..Len(text) :
            OccursAt(text, part, i) /\ \A j \in 0..(i - 1) : ~OccursAt(text, part, j)
    ELSE -1

includes(text, part) == indexOf(text, part) >= 0

endsWith(text, part) ==
    Len(part) <= Len(text) /\ OccursAt(text, part, Len(text) - Len(part))

\* The end (1-based, inclusive) of the run of digits that starts at position i.
RECURSIVE digitsEnd(_, _)
digitsEnd(text, i) ==
    IF i < Len(text) /\ IsDigit(text[i + 1]) THEN digitsEnd(text, i + 1) ELSE i

\* text.match(/\$?\d+/g): the matched strings, left to right, from position i on.
RECURSIVE matchAll(_, _)
matchAll(text, i) ==
    IF i > Len(text) THEN <<>>
    ELSE IF text[i] = "$" /\ i < Len(text) /\ IsDigit(text[i + 1])
    THEN LET e == digitsEnd(text, i + 1)
         IN  <<SubSeq(text, i, e)>> \o matchAll(text, e + 1)
    ELSE IF IsDigit(text[i])
    THEN LET e == digitsEnd(text, i)
         IN  <<SubSeq(text, i, e)>> \o matchAll(text, e + 1)
    ELSE matchAll(text, i + 1)

\* parseFloat(match.replace("$", "")) of a matched string.
RECURSIVE parseDigits(_)
parseDigits(ds) ==
    IF Len(ds) = 0 THEN 0
    ELSE parseDigits(Front(ds)) * 10 + DigitValue(Last(ds))

parseValue(match) ==
    parseDigits(IF match[1] = "$" THEN Tail(match) ELSE match)

\* Product/model indicators.
productWords == <<
    <<"i", "p", "h", "o", "n", "e">>,
    <<"g", "a", "l", "a", "x", "y">>,
    <<"s", "e", "r", "i", "e", "s">>,
    <<"m", "o", "d", "e", "l">>,
    <<"v", "e", "r", "s", "i", "o", "n">>,
    <<"m", "a", "r", "k">>,
    <<"p", "r", "o">>,
    <<"m", "a", "x">>,
    <<"m", "i", "n", "i">>,
    <<"p", "l", "u", "s">>
>>

\* Offer context indicators.
offerPhrases == <<
    <<"i", " ", "c", "a", "n", " ", "o", "f", "f", "e", "r">>,
    <<"i", " ", "o", "f", "f", "e", "r">>,
    <<"o", "f", "f", "e", "r", " ", "y", "o", "u">>,
    <<"w", "i", "l", "l", "i", "n", "g", " ", "t", "o", " ", "p", "a", "y">>,
    <<"i", "'", "l", "l", " ", "p", "a", "y">>,
    <<"i", " ", "c", "a", "n", " ", "p", "a", "y">>,
    <<"t", "h", "i", "n", "k", "i", "n", "g", " ", "m", "o", "r", "e", " ", "l", "i", "k", "e">>,
    <<"h", "o", "w", " ", "a", "b", "o", "u", "t">>,
    <<"w", "h", "a", "t", " ", "a", "b", "o", "u", "t">>,
    <<"i", " ", "w", "a", "s", " ", "t", "h", "i", "n", "k", "i", "n", "g">>,
    <<"t", "h", "e", " ", "l", "e", "a", "s", "t", " ", "i", " ", "c", "a", "n", " ", "t", "a", "k", "e">>,
    <<"i", " ", "c", "a", "n", " ", "t", "a", "k", "e">>,
    <<"l", "o", "w", "e", "s", "t", " ", "i", "'", "l", "l", " ", "g", "o">>,
    <<"m", "i", "n", "i", "m", "u", "m", " ", "i", "s">>,
    <<"m", "y", " ", "f", "i", "n", "a", "l", " ", "o", "f", "f", "e", "r">>,
    <<"b", "e", "s", "t", " ", "i", " ", "c", "a", "n", " ", "d", "o">>,
    <<"i", "'", "l", "l", " ", "a", "c", "c", "e", "p", "t">>,
    <<"d", "e", "a", "l", " ", "a", "t">>,
    <<"c", "o", "u", "n", "t", "e", "r", " ", "o", "f", "f", "e", "r">>,
    <<"c", "o", "u", "n", "t", "e", "r", "o", "f", "f", "e", "r">>,
    <<"i", " ", "p", "r", "o", "p", "o", "s", "e">>
>>

\* Rejection context indicators.
rejectionPhrases == <<
    <<"t", "o", "o", " ", "h", "i", "g", "h">>,
    <<"t", "o", "o", " ", "e", "x", "p", "e", "n", "s", "i", "v", "e">>,
    <<"t", "o", "o", " ", "m", "u", "c", "h">>,
    <<"c", "a", "n", "'", "t", " ", "a", "f", "f", "o", "r", "d">>,
    <<"w", "a", "y", " ", "t", "o", "o">>,
    <<"b", "e", "l", "o", "w", " ", "a", "s", "k", "i", "n", "g">>,
    <<"f", "a", "r", " ", "b", "e", "l", "o", "w">>,
    <<"n", "o", "t", " ", "e", "n", "o", "u", "g", "h">>,
    <<"t", "o", "o", " ", "l", "o", "w">>
>>

\* One scored candidate of extractNumbersWithRegex.
scoreMatch(text, match) ==
    LET value == parseValue(match)
        matchIndex == indexOf(text, match)
        before == toLowerCase(substring(text, Max(0, matchIndex - WindowChars), matchIndex))
        after == toLowerCase(substring(text, matchIndex + Len(match),
                                       matchIndex + Len(match) + WindowChars))
        surrounding == before \o <<" ">> \o toLowerCase(match) \o <<" ">> \o after
        isLikelyModel ==
            \E i \in DOMAIN productWords :
                \/ endsWith(before, productWords[i] \o <<" ">>)
                \/ includes(before, productWords[i] \o <<" ">> \o toLowerCase(match))
        offerContext == \E i \in DOMAIN offerPhrases : includes(surrounding, offerPhrases[i])
        rejectContext == \E i \in DOMAIN rejectionPhrases : includes(surrounding, rejectionPhrases[i])
        c1 == IF offerContext THEN OfferPhraseConfidence
              ELSE IF rejectContext THEN Max((BaseConfidence * 7) \div 10, RejectionFloor)
              ELSE BaseConfidence
        c2 == IF match[1] = "$" THEN (c1 * 13) \div 10 ELSE c1
        c3 == IF value >= 50 /\ value <= 10000 THEN (c2 * 12) \div 10
              ELSE IF value < 10 THEN (c2 * 3) \div 10
              ELSE IF value > 10000 THEN (c2 * 7) \div 10
              ELSE c2
    IN  IF isLikelyModel
        THEN [value |-> value, context |-> "model_number", confidence |-> ModelConfidence]
        ELSE [value |-> value,
              context |-> IF offerContext THEN "offer_phrase"
                          ELSE IF rejectContext THEN "rejection_context"
                          ELSE "neutral",
              confidence |-> c3]

\* numbersFound of extractNumbersWithRegex: the scored candidates in match order.
numbersFound(text) ==
    LET matches == matchAll(text, 1)
    IN  [i \in DOMAIN matches |-> scoreMatch(text, matches[i])]

\* strongOffers.reduce(...): the first candidate of highest confidence.
firstBest(cands) ==
    cands[CHOOSE i \in DOMAIN cands :
            /\ \A j \in DOMAIN cands : cands[j].confidence <= cands[i].confidence
            /\ \A j \in 1..(i - 1) : cands[j].confidence < cands[i].confidence]

SeqMax(vals) == CHOOSE v \in Range(vals) : \A w \in Range(vals) : w <= v

SeqMin(vals) == CHOOSE v \in Range(vals) : \A w \in Range(vals) : v <= w

\* A variant without the branch for strong offers.
selectOffer_NoStrongOffers(numbers, role) ==
    LET isValid(n) == n.confidence > ConfidenceFloor
        validNumbers == SelectSeq(numbers, isValid)
        top == firstBest(validNumbers)
        isTop(n) == n.confidence * 10 >= top.confidence * 8
        topConfident == SelectSeq(validNumbers, isTop)
        values == [i \in DOMAIN topConfident |-> topConfident[i].value]
    IN  IF Len(validNumbers) = 0 THEN NullOffer
        ELSE IF role = "A" THEN SeqMax(values)
        ELSE IF role = "B" THEN SeqMin(values)
        ELSE top.value

\* The selection of extractNumbersWithRegex over the scored candidates.
selectOffer(numbers, role) ==
    LET isValid(n) == n.confidence > ConfidenceFloor
        validNumbers == SelectSeq(numbers, isValid)
        isStrong(n) == n.context = "offer_phrase"
        strongOffers == SelectSeq(validNumbers, isStrong)
        top == firstBest(validNumbers)
        isTop(n) == n.confidence * 10 >= top.confidence * 8
        topConfident == SelectSeq(validNumbers, isTop)
        values == [i \in DOMAIN topConfident |-> topConfident[i].value]
    IN  IF Len(validNumbers) = 0 THEN NullOffer
        ELSE IF Len(strongOffers) > 0 THEN firstBest(strongOffers).value
        ELSE IF role = "A" THEN SeqMax(values)
        ELSE IF role = "B" THEN SeqMin(values)
        ELSE top.value

\* extractOffer(message, role) -> extractNumbersWithRegex(text, role).
extractOffer(text, role) ==
    LET numbers == numbersFound(text)
    IN  [numbersFound |-> numbers, offer |-> selectOffer(numbers, role)]

\* The chat texts participants send.
Texts == <<
    <<"I", " ", "c", "a", "n", " ", "s", "e", "l", "l", " ", "t", "h", "i", "s", " ", "f", "o", "r", " ", "$", "5", "0", "0">>,
    <<"H", "o", "w", " ", "a", "b", "o", "u", "t", " ", "$", "3", "0", "0", "?">>,
    <<"i", "P", "h", "o", "n", "e", " ", "1", "4", " ", "P", "r", "o">>,
    <<"t", "o", "o", " ", "h", "i", "g", "h", ",", " ", "2", "5", "0", " ", "o", "r", " ", "2", "6", "0">>,
    <<"o", "k", " ", "d", "e", "a", "l">>
>>

ChatTexts == {2, 4, 5}

\* The offer extracted from each text for each role a sender can hold.
OfferOf ==
    [t \in DOMAIN Texts |->
        [r \in {"A", "B", NoRole} |-> extractOffer(Texts[t], r).offer]]

\* ------------------------------------------------------------ matchmaking
\* A variant that prefers the role held MORE often; C8 is tested against it.
shouldPlayerBeBuyer_Inverted(user) ==
    LET buyerCount == Count(user.roleHistory, "B")
        sellerCount == Count(user.roleHistory, "A")
        totalGames == buyerCount + sellerCount
    IN  IF totalGames = 0 THEN BOOLEAN
        ELSE IF buyerCount < sellerCount THEN {FALSE}
        ELSE IF sellerCount < buyerCount THEN {TRUE}
        ELSE BOOLEAN

\* The values shouldPlayerBeBuyer(user) can return.
shouldPlayerBeBuyer(user) ==
    LET buyerCount == Count(user.roleHistory, "B")
        sellerCount == Count(user.roleHistory, "A")
        totalGames == buyerCount + sellerCount
    IN  IF totalGames = 0 THEN BOOLEAN
        ELSE IF buyerCount < sellerCount THEN {TRUE}
        ELSE IF sellerCount < buyerCount THEN {FALSE}
        ELSE BOOLEAN

\* availableUsers.filter(...) of findOptimalPartner: the never-partnered others.
eligibleUsers(us, user, availableUsers) ==
    LET ok(other) == /\ other # user
                     /\ ~Includes(us[user].previousPartners, other)
                     /\ ~Includes(us[other].previousPartners, user)
    IN  SelectSeq(availableUsers, ok)

\* A variant that takes the first other participant whether or not a
\* never-partnered one is left; C7 is tested against it.
findOptimalPartner_FirstOther(us, user, availableUsers) ==
    LET others == SelectSeq(availableUsers, LAMBDA other : other # user)
    IN  {IF Len(others) = 0 THEN Undefined ELSE others[1]}

\* The values findOptimalPartner(user, availableUsers) can return.
findOptimalPartner(us, user, availableUsers) ==
    LET eligible == eligibleUsers(us, user, availableUsers)
        others == SelectSeq(availableUsers, LAMBDA other : other # user)
    IN  IF Len(eligible) = 0
        THEN {IF Len(others) = 0 THEN Undefined ELSE others[1]}
        ELSE Range(eligible)

\* The Fisher-Yates loop of createGamePairs from index i down: every array it can leave.
RECURSIVE shuffle(_, _)
shuffle(arr, i) ==
    IF i < 2 THEN {arr}
    ELSE UNION {shuffle(Swap(arr, i, j), i - 1) : j \in 1..i}

\* A variant whose tie-break compares with `<`; C9 is tested against it.
assignRoles_Strict(us, userA, userB, userA_ShouldBeBuyer, userB_ShouldBeBuyer) ==
    IF userA_ShouldBeBuyer = userB_ShouldBeBuyer
    THEN LET userA_BuyerCount == Count(us[userA].roleHistory, "B")
             userB_BuyerCount == Count(us[userB].roleHistory, "B")
         IN  IF userA_BuyerCount < userB_BuyerCount
             THEN <<"B", "A">>
             ELSE <<"A", "B">>
    ELSE <<IF userA_ShouldBeBuyer THEN "B" ELSE "A",
           IF userB_ShouldBeBuyer THEN "B" ELSE "A">>

\* The role branch of createGamePairs: <<userA.role, userB.role>>.
assignRoles(us, userA, userB, userA_ShouldBeBuyer, userB_ShouldBeBuyer) ==
    IF userA_ShouldBeBuyer = userB_ShouldBeBuyer
    THEN LET userA_BuyerCount == Count(us[userA].roleHistory, "B")
             userB_BuyerCount == Count(us[userB].roleHistory, "B")
         IN  IF userA_BuyerCount <= userB_BuyerCount
             THEN <<"B", "A">>
             ELSE <<"A", "B">>
    ELSE <<IF userA_ShouldBeBuyer THEN "B" ELSE "A",
           IF userB_ShouldBeBuyer THEN "B" ELSE "A">>

\* Role, role history and partner record of one new pair.
recordPair(us, userA, userB, roles) ==
    LET a1 == [us[userA] EXCEPT !.role = roles[1],
                                !.roleHistory = Append(@, roles[1])]
        b1 == [us[userB] EXCEPT !.role = roles[2],
                                !.roleHistory = Append(@, roles[2])]
        us1 == [[us EXCEPT ![userA] = a1] EXCEPT ![userB] = b1]
        us2 == [us1 EXCEPT ![userA].previousPartners = Append(@, userB)]
    IN  [us2 EXCEPT ![userB].previousPartners = Append(@, userA)]

\* A variant without the splice; C6 is tested against it.
removePartner_NoSplice(availableUsers, userB) == availableUsers

\* availableUsers after `indexOf(userB)` and `splice(index, 1)`.
removePartner(availableUsers, userB) ==
    LET index == IndexOf(availableUsers, userB)
    IN  IF index > 0 THEN RemoveAt(availableUsers, index) ELSE availableUsers

\* The while loop of createGamePairs: every [us, pairs, prefs] it can end with.
RECURSIVE pairLoop(_, _, _, _)
pairLoop(us, availableUsers, made, prefs) ==
    IF Len(availableUsers) < 2
    THEN {[us |-> us, pairs |-> made, prefs |-> prefs]}
    ELSE
      LET userA == Last(availableUsers)
          popped == Front(availableUsers)
      IN UNION {
           LET userB == IF found # Undefined THEN found ELSE Last(popped)
               rest0 == IF found # Undefined THEN popped ELSE Front(popped)
               rest == removePartner(rest0, userB)
           IN UNION {
                pairLoop(recordPair(us, userA, userB,
                                    assignRoles(us, userA, userB, pa, pb)),
                         rest,
                         Append(made, <<userA, userB>>),
                         Append(prefs, <<pa, pb>>))
                : pa \in shouldPlayerBeBuyer(us[userA]),
                  pb \in shouldPlayerBeBuyer(us[userB])}
           : found \in findOptimalPartner(us, userA, popped)}

\* A variant whose first forEach gives every user of the pool a new role history.
createGamePairs_NewHistories(us, roomUsers) ==
    LET RECURSIVE forEach(_, _)
        forEach(objs, k) ==
            IF k > Len(roomUsers) THEN objs
            ELSE forEach([objs EXCEPT ![roomUsers[k]].roleHistory = <<>>], k + 1)
        fresh == forEach(us, 1)
    IN  UNION {pairLoop(fresh, shuffled, <<>>, <<>>)
               : shuffled \in shuffle(roomUsers, Len(roomUsers))}

\* Every outcome of createGamePairs(roomUsers) on the user objects us.
createGamePairs(us, roomUsers) ==
    UNION {pairLoop(us, shuffled, <<>>, <<>>)
           : shuffled \in shuffle(roomUsers, Len(roomUsers))}

\* ------------------------------------------------------ duration rendering
\* String(n) for a non-negative whole number: its decimal digits.
RECURSIVE toDecimal(_)
toDecimal(n) ==
    IF n < 10 THEN <<DigitChars[n + 1]>>
    ELSE toDecimal(n \div 10) \o <<DigitChars[(n % 10) + 1]>>

\* A variant whose hours branch forgets `% 3600`; C13 is tested against it.
formatDuration_AllMinutes(seconds) ==
    IF seconds < 60 THEN toDecimal(seconds) \o <<"s">>
    ELSE IF seconds < 3600
    THEN toDecimal(seconds \div 60) \o <<"m", " ">> \o toDecimal(seconds % 60) \o <<"s">>
    ELSE toDecimal(seconds \div 3600) \o <<"h", " ">>
            \o toDecimal(seconds \div 60) \o <<"m", " ">>
            \o toDecimal(seconds % 60) \o <<"s">>

\* GameAnalytics.formatDuration(seconds) for a non-negative whole number.
formatDuration(seconds) ==
    IF seconds < 60 THEN toDecimal(seconds) \o <<"s">>
    ELSE IF seconds < 3600
    THEN LET minutes == seconds \div 60
             secs == seconds % 60
         IN  toDecimal(minutes) \o <<"m", " ">> \o toDecimal(secs) \o <<"s">>
    ELSE LET hours == seconds \div 3600
             minutes == (seconds % 3600) \div 60
             secs == seconds % 60
         IN  toDecimal(hours) \o <<"h", " ">> \o toDecimal(minutes) \o <<"m", " ">>
                \o toDecimal(secs) \o <<"s">>

NoCall == [fn |-> "none", arg |-> 0, result |-> <<>>]

\* Nothing emitted yet.
NoEmit == [to |-> Undefined, events |-> <<>>]

\* What the observer holds after a handler step put out `events` while serving
\* connection `to`.
emit(to, events) == [to |-> to, events |-> events]

\* formatDuration called on its own with any whole number of seconds. The
\* function reads nothing but its argument: one call per behaviour covers all.
FormatDuration ==
    \E seconds \in 0..MaxSeconds :
        /\ lastCall = NoCall
        /\ lastCall' = [fn |-> "formatDuration", arg |-> seconds,
                        result |-> formatDuration(seconds)]
        /\ UNCHANGED <<userObj, lastRun, users, rooms, pairObj, pairs, sockets, timers,
                       micro, rounds, now, submitted, arrived, emitted, db, cache, calls>>

NextFormat == FormatDuration

\* ------------------------------------------------------- the durable store
\* pair.finalDeal before a deal: null.
NoDeal == [success |-> FALSE]

\* Rows and objects are functions from field names to values; null is Undefined
\* for ids and times, NoRole for a role, NullOffer for an offer, NoDeal for a deal.
\* The tables start as database/schema.sql leaves them: no users, rooms, pairs or
\* messages.
EmptyStore == [up |-> TRUE, users |-> <<>>, rooms |-> <<>>, pairs |-> <<>>,
               messages |-> <<>>]

EmptyCache == [users |-> <<>>, rooms |-> <<>>, pairs |-> <<>>]

\* Object.assign(target, source)
assign(target, source) ==
    [k \in DOMAIN target \cup DOMAIN source |->
        IF k \in DOMAIN source THEN source[k] ELSE target[k]]

\* map.set(key, value)
mapSet(map, key, value) ==
    [k \in DOMAIN map \cup {key} |-> IF k = key THEN value ELSE map[k]]

\* The ids uuid_generate_v4() gives pair rows: they never coincide with the ids
\* uuidv4() gives the server's pair objects (1, 2, ...).
StoreIds == 100

\* The columns of the tables an UPDATE can name.
Columns ==
    [user |-> {"id", "name", "survey_responses", "survey_completed", "created_at",
               "current_round", "completed_rounds", "completed_deals",
               "previous_partners", "role_history", "room_id", "socket_id", "role",
               "pair_id", "is_moderator", "last_active"},
     room |-> {"id", "name", "description", "image_url", "products", "current_round",
               "status", "max_players", "created_at", "config"},
     pair |-> {"id", "room_id", "user_a_id", "user_b_id", "round_number", "product",
               "started_at", "ended_at", "final_deal", "latest_offers", "status"}]

\* CURRENT_TIMESTAMP: the store's own clock, which no handler reads; it stands still.
CurrentTimestamp == 0

\* Database.createUser: the row INSERT INTO users ... RETURNING * gives back.
userRow(id, userData) ==
    [id |-> id, name |-> userData.name, survey_responses |-> userData.surveyResponses,
     survey_completed |-> userData.surveyCompleted, created_at |-> CurrentTimestamp,
     current_round |-> 0, completed_rounds |-> 0, completed_deals |-> 0,
     previous_partners |-> <<>>, role_history |-> <<>>, room_id |-> Undefined,
     socket_id |-> Undefined, role |-> NoRole, pair_id |-> Undefined,
     is_moderator |-> FALSE, last_active |-> CurrentTimestamp]

\* The user data the survey handler and the test scripts pass to createUser.
UserData == [name |-> "P", surveyResponses |-> "answers", surveyCompleted |-> TRUE]

\* Database.createRoom as ensureRoom calls it.
roomRow(roomId) ==
    [id |-> roomId, name |-> roomId, description |-> "Auto-created room",
     image_url |-> "null", products |-> <<>>, current_round |-> 0,
     status |-> "waiting", max_players |-> 20, created_at |-> CurrentTimestamp, config |-> <<>>]

\* Database.createPair: the row INSERT INTO pairs ... RETURNING * gives back.
pairRow(id, pairData) ==
    [id |-> id, room_id |-> pairData.roomId, user_a_id |-> pairData.userA,
     user_b_id |-> pairData.userB, round_number |-> pairData.roundNumber,
     product |-> pairData.product, started_at |-> CurrentTimestamp, ended_at |-> Undefined,
     final_deal |-> NoDeal, latest_offers |-> [A |-> NullOffer, B |-> NullOffer],
     status |-> "active"]

\* Database.saveMessage: the row INSERT INTO messages ... RETURNING * gives back.
messageRow(messageData) ==
    [pair_id |-> messageData.pairId, user_id |-> messageData.userId,
     user_name |-> messageData.userName, role |-> messageData.role,
     message |-> messageData.message, extracted_offer |-> messageData.extractedOffer,
     offer_confidence |-> messageData.offerConfidence, timestamp |-> CurrentTimestamp,
     metadata |-> messageData.metadata]

\* The row of a table (a sequence of rows) with the given id, if any.
hasRow(table, id) == \E i \in DOMAIN table : table[i].id = id
rowOf(table, id) == table[CHOOSE i \in DOMAIN table : table[i].id = id]

\* PersistenceManager.transformDbUser
transformDbUser(dbUser) ==
    [id |-> dbUser.id, name |-> dbUser.name, surveyResponses |-> dbUser.survey_responses,
     surveyCompleted |-> dbUser.survey_completed, createdAt |-> dbUser.created_at,
     currentRound |-> dbUser.current_round, completedRounds |-> dbUser.completed_rounds,
     completedDeals |-> dbUser.completed_deals,
     previousPartners |-> dbUser.previous_partners, roleHistory |-> dbUser.role_history,
     roomId |-> dbUser.room_id, socketId |-> Undefined, role |-> dbUser.role,
     pairId |-> dbUser.pair_id]

\* PersistenceManager.transformDbRoom
transformDbRoom(dbRoom) ==
    [id |-> dbRoom.id, name |-> dbRoom.name, description |-> dbRoom.description,
     image |-> dbRoom.image_url, products |-> dbRoom.products,
     currentRound |-> dbRoom.current_round, status |-> dbRoom.status,
     users |-> <<>>, pairs |-> <<>>]

\* The message objects reconstructPair builds from the rows of one pair, in
\* timestamp (insertion) order: six named fields, then the metadata spread over them.
messagesOf(store, pairId) ==
    LET rows == SelectSeq(store.messages, LAMBDA msg : msg.pair_id = pairId)
    IN  [i \in DOMAIN rows |->
            assign([userId |-> rows[i].user_id, userName |-> rows[i].user_name,
                    role |-> rows[i].role, message |-> rows[i].message,
                    offer |-> rows[i].extracted_offer, timestamp |-> rows[i].timestamp],
                   rows[i].metadata)]

\* PersistenceManager.reconstructPair; userA and userB are references to the
\* user objects, held here as their ids.
reconstructPair(store, dbPair) ==
    [id |-> dbPair.id, roomId |-> dbPair.room_id, userA |-> dbPair.user_a_id,
     userB |-> dbPair.user_b_id, messages |-> messagesOf(store, dbPair.id),
     product |-> dbPair.product, latestOffers |-> dbPair.latest_offers,
     finalDeal |-> dbPair.final_deal, startedAt |-> dbPair.started_at]

\* The keys of an update that are column names already: they hold a '_' or are
\* one of status, name, description.
DirectKeys ==
    {"status", "name", "description"} \cup
    {k \in UNION {Columns[t] : t \in DOMAIN Columns} :
        k \notin {"id", "name", "description", "products", "status", "role", "product",
                   "config"}}

\* The keys transformUpdatesForDb translates, per entity type.
KeyColumns ==
    [user |-> [surveyResponses |-> "survey_responses",
               surveyCompleted |-> "survey_completed", currentRound |-> "current_round",
               completedRounds |-> "completed_rounds",
               completedDeals |-> "completed_deals",
               previousPartners |-> "previous_partners", roleHistory |-> "role_history",
               roomId |-> "room_id", socketId |-> "socket_id", pairId |-> "pair_id"],
     room |-> [currentRound |-> "current_round", imageUrl |-> "image_url"],
     pair |-> [finalDeal |-> "final_deal", latestOffers |-> "latest_offers"]]

\* PersistenceManager.transformUpdatesForDb: direct keys are copied, the listed
\* keys are written under their column names, every other key is left out.
transformUpdatesForDb(updates, type) ==
    LET direct == DOMAIN updates \cap DirectKeys
        translated == DOMAIN updates \cap DOMAIN KeyColumns[type]
        columns == {KeyColumns[type][k] : k \in translated}
    IN  [c \in direct \cup columns |->
            IF c \in columns
            THEN updates[CHOOSE k \in translated : KeyColumns[type][k] = c]
            ELSE updates[c]]

\* Database.updateUser / updateRoom / updatePair: UPDATE ... SET key = value, ...
\* WHERE id = $1. The statement fails when the store is unreachable, when no key
\* is given (SET is followed by nothing) or when a key is not a column.
updateFails(store, type, dbUpdates) ==
    \/ ~store.up
    \/ DOMAIN dbUpdates = {}
    \/ ~(DOMAIN dbUpdates \subseteq Columns[type])

updateRows(table, id, dbUpdates) ==
    [i \in DOMAIN table |->
        IF table[i].id = id THEN assign(table[i], dbUpdates) ELSE table[i]]

\* What a PersistenceManager call leaves behind once its Database call has settled
\* and its continuation has run: the store, the cache, and whether it resolved.
settled(store, ch, ok) == [db |-> store, cache |-> ch, ok |-> ok]

\* PersistenceManager.createUser: the row first, then the cache entry.
createUser(st, userData) ==
    IF ~st.db.up THEN settled(st.db, st.cache, FALSE)
    ELSE LET dbUser == userRow(Len(st.db.users) + 1, userData)
         IN  settled([st.db EXCEPT !.users = Append(@, dbUser)],
                     [st.cache EXCEPT !.users = mapSet(@, dbUser.id, transformDbUser(dbUser))],
                     TRUE)

\* PersistenceManager.getUser on a cache miss.
getUser(st, userId) ==
    IF userId \in DOMAIN st.cache.users THEN settled(st.db, st.cache, TRUE)
    ELSE IF ~st.db.up THEN settled(st.db, st.cache, FALSE)
    ELSE IF hasRow(st.db.users, userId)
         THEN settled(st.db,
                      [st.cache EXCEPT !.users =
                          mapSet(@, userId, transformDbUser(rowOf(st.db.users, userId)))],
                      TRUE)
         ELSE settled(st.db, st.cache, TRUE)

\* PersistenceManager.ensureRoom: the cached room, or the stored one, or a new row.
ensureRoom(st, roomId) ==
    IF roomId \in DOMAIN st.cache.rooms THEN settled(st.db, st.cache, TRUE)
    ELSE IF ~st.db.up THEN settled(st.db, st.cache, FALSE)
    ELSE LET stored == hasRow(st.db.rooms, roomId)
             dbRoom == IF stored THEN rowOf(st.db.rooms, roomId) ELSE roomRow(roomId)
         IN  settled(IF stored THEN st.db ELSE [st.db EXCEPT !.rooms = Append(@, dbRoom)],
                     [st.cache EXCEPT !.rooms = mapSet(@, roomId, transformDbRoom(dbRoom))],
                     TRUE)

\* PersistenceManager.createPair: the row first (room_id, user_a_id and user_b_id
\* reference rooms and users), then the cache entry under the row's id.
createPair(st, pairData) ==
    IF \/ ~st.db.up
       \/ ~hasRow(st.db.rooms, pairData.roomId)
       \/ ~hasRow(st.db.users, pairData.userA)
       \/ ~hasRow(st.db.users, pairData.userB)
    THEN settled(st.db, st.cache, FALSE)
    ELSE LET dbPair == pairRow(StoreIds + Len(st.db.pairs) + 1, pairData)
             pair == [id |-> dbPair.id, roomId |-> pairData.roomId,
                      userA |-> pairData.userA, userB |-> pairData.userB,
                      messages |-> <<>>, product |-> pairData.product,
                      latestOffers |-> [A |-> NullOffer, B |-> NullOffer],
                      finalDeal |-> NoDeal, startedAt |-> dbPair.started_at]
         IN  settled([st.db EXCEPT !.pairs = Append(@, dbPair)],
                     [st.cache EXCEPT !.pairs = mapSet(@, pair.id, pair)],
                     TRUE)

\* PersistenceManager.getPair on a cache miss: reconstructPair loads both users
\* through getUser, then the pair.
getPair(st, pairId) ==
    IF pairId \in DOMAIN st.cache.pairs THEN settled(st.db, st.cache, TRUE)
    ELSE IF ~st.db.up THEN settled(st.db, st.cache, FALSE)
    ELSE IF hasRow(st.db.pairs, pairId)
         THEN LET dbPair == rowOf(st.db.pairs, pairId)
                  withA == getUser(st, dbPair.user_a_id)
                  withB == getUser(withA, dbPair.user_b_id)
              IN  settled(withB.db,
                          [withB.cache EXCEPT !.pairs =
                              mapSet(@, pairId, reconstructPair(st.db, dbPair))],
                          TRUE)
         ELSE settled(st.db, st.cache, TRUE)

\* The table and the cache map of an entity type.
tableOf == [user |-> "users", room |-> "rooms", pair |-> "pairs"]

\* PersistenceManager.updateUser / updateRoom / updatePair: the translated update
\* goes to the row first; once that has resolved the untranslated update is merged
\* into the cached object, if there is one.
update(st, type, id, updates) ==
    LET t == tableOf[type]
        dbUpdates == transformUpdatesForDb(updates, type)
    IN  IF updateFails(st.db, type, dbUpdates) THEN settled(st.db, st.cache, FALSE)
        ELSE settled([st.db EXCEPT ![t] = updateRows(@, id, dbUpdates)],
                     IF id \in DOMAIN st.cache[t]
                     THEN [st.cache EXCEPT ![t][id] = assign(@, updates)]
                     ELSE st.cache,
                     TRUE)

\* PersistenceManager.saveMessage: the row first (pair_id and user_id reference
\* pairs and users), then { ...messageData, timestamp } is pushed to the cached pair.
saveMessage(st, messageData) ==
    IF \/ ~st.db.up
       \/ ~hasRow(st.db.pairs, messageData.pairId)
       \/ ~hasRow(st.db.users, messageData.userId)
    THEN settled(st.db, st.cache, FALSE)
    ELSE LET dbMessage == messageRow(messageData)
             id == messageData.pairId
         IN  settled([st.db EXCEPT !.messages = Append(@, dbMessage)],
                     IF id \in DOMAIN st.cache.pairs
                     THEN [st.cache EXCEPT !.pairs[id].messages =
                             Append(@, assign(messageData,
                                              [timestamp |-> dbMessage.timestamp]))]
                     ELSE st.cache,
                     TRUE)

\* ------------------------------------------------- matchmaking on its own
NewUser ==
    [role |-> NoRole, roleHistory |-> <<>>, previousPartners |-> <<>>,
     socketId |-> Undefined, roomId |-> Undefined, pairId |-> Undefined,
     confirmPrice |-> NoPrice]

\* A pool: the members of a set of participants in id order.
RECURSIVE SeqOfSet(_)
SeqOfSet(S) ==
    IF S = {} THEN <<>>
    ELSE LET m == CHOOSE x \in S : \A y \in S : x <= y
         IN  <<m>> \o SeqOfSet(S \ {m})

Pools == {SeqOfSet(S) : S \in SUBSET UserIds}

NoRun == [pool |-> <<>>, pairs |-> <<>>, prefs |-> <<>>]

InitMatch ==
    /\ userObj = [u \in UserIds |-> NewUser]
    /\ lastRun = NoRun
    /\ users = UserIds
    /\ rooms = <<>>
    /\ pairObj = <<>>
    /\ pairs = {}
    /\ sockets = <<>>
    /\ timers = <<>>
    /\ micro = <<>>
    /\ rounds = <<>>
    /\ now = 0
    /\ submitted = <<>>
    /\ arrived = <<>>
    /\ lastCall = NoCall
    /\ emitted = NoEmit
    /\ db = EmptyStore
    /\ cache = EmptyCache
    /\ calls = <<>>

MatchRound ==
    \E pool \in Pools :
        /\ \A i \in DOMAIN pool : Len(userObj[pool[i]].roleHistory) < MaxHistory
        /\ \E out \in createGamePairs(userObj, pool) :
              /\ userObj' = out.us
              /\ lastRun' = [pool |-> pool, pairs |-> out.pairs, prefs |-> out.prefs]
        /\ UNCHANGED <<users, rooms, pairObj, pairs, sockets, timers, micro, rounds, now,
                       submitted, arrived, lastCall, emitted, db, cache, calls>>

NextMatch == MatchRound

SpecMatch == InitMatch /\ [][NextMatch]_vars


\* A variant that truncates instead of rounding; C12 is tested against it.
roundSeconds_Floor(ms) == ms \div 1000

\* Math.round(ms / 1000) for a non-negative number of milliseconds.
roundSeconds(ms) == (ms + 500) \div 1000

\* The observer gets an empty entry for every pair object that is new in po.
trackSessions(po) ==
    [q \in DOMAIN po |->
        IF q \in DOMAIN submitted THEN submitted[q]
        ELSE [u \in {po[q].userA, po[q].userB} |-> <<>>]]

\* ------------------------------------------------------------ server state
NoSocketData ==
    [userId |-> Undefined, roomId |-> Undefined, isModerator |-> FALSE,
     authenticated |-> FALSE]

IdleSocket == [state |-> "idle", data |-> NoSocketData]

NoRoom == [exists |-> FALSE, users |-> <<>>, pairs |-> <<>>, currentRound |-> 0,
           status |-> "none"]

Init ==
    /\ userObj = [u \in UserIds |-> NewUser]
    /\ lastRun = NoRun
    /\ users = {}
    /\ rooms = [r \in RoomIds |-> NoRoom]
    /\ pairObj = <<>>
    /\ pairs = {}
    /\ sockets = [s \in SocketIds |-> IdleSocket]
    /\ timers = [r \in RoomIds |-> 0]
    /\ micro = <<>>
    /\ rounds = <<>>
    /\ now = 0
    /\ submitted = <<>>
    /\ arrived = <<>>
    /\ lastCall = NoCall
    /\ emitted = NoEmit
    /\ db = EmptyStore
    /\ cache = EmptyCache
    /\ calls = <<>>

\* An event of connection s can be dispatched: the process is between events, or
\* the handlers still suspended on a resolved promise belong to the same batch of
\* packets of s (socket.io dispatches a batch before any of them resumes).
CanDispatch(s) ==
    /\ sockets[s].state = "open"
    /\ \A i \in DOMAIN micro : micro[i].socket = s

Quiet == micro = <<>>

\* findUserBySocketId is not used by the handlers below; they read socket.data.
socketUser(s) == sockets[s].data.userId

\* The guards shared by chatMessage and confirmDeal: registered, in a pair, pair found.
inSession(s) ==
    /\ socketUser(s) # Undefined
    /\ socketUser(s) \in users
    /\ userObj[socketUser(s)].pairId # Undefined
    /\ userObj[socketUser(s)].pairId \in pairs

\* The store and the cache as the persistence operators take them.
persisted == [db |-> db, cache |-> cache]

\* POST /api/survey/submit when persistence.createUser resolves: the participant
\* enters `users` under the id of the new row.
SurveySubmit(n) ==
    /\ Quiet
    /\ Len(db.users) < n
    /\ createUser(persisted, UserData).ok
    /\ db' = createUser(persisted, UserData).db
    /\ cache' = createUser(persisted, UserData).cache
    /\ users' = users \cup {Len(db.users) + 1}
    /\ UNCHANGED <<userObj, lastRun, rooms, pairObj, pairs, sockets, timers, micro,
                   rounds, now, submitted, arrived, lastCall, emitted, calls>>

\* POST /api/survey/submit when persistence.createUser rejects: the request is
\* answered with status 500 and no participant is created.
SurveySubmitFails(n) ==
    /\ Quiet
    /\ Len(db.users) < n
    /\ ~createUser(persisted, UserData).ok
    /\ emitted' = emit(Undefined, <<[event |-> "status 500", message |-> "Server error"]>>)
    /\ UNCHANGED <<userObj, lastRun, users, rooms, pairObj, pairs, sockets, timers,
                   micro, rounds, now, submitted, arrived, lastCall, db, cache, calls>>

\* io.on("connection"): a browser connects, or connects again after a disconnect;
\* socket.data starts empty.
Connect(s) ==
    /\ Quiet
    /\ sockets[s].state = "idle"
    /\ sockets' = [sockets EXCEPT ![s] = [state |-> "open", data |-> NoSocketData]]
    /\ UNCHANGED <<userObj, lastRun, users, rooms, pairObj, pairs, timers, micro,
                   rounds, now, submitted, arrived, lastCall, emitted, db, cache, calls>>

\* socket.on("joinRoom")
JoinRoom(s, userId, roomId) ==
    /\ CanDispatch(s)
    /\ userId \in users
    /\ timers[roomId] < MaxTimers
    /\ LET room == IF rooms[roomId].exists THEN rooms[roomId]
                   ELSE [NoRoom EXCEPT !.exists = TRUE, !.status = "waiting"]
           roomUsers == IF Includes(room.users, userId) THEN room.users
                        ELSE Append(room.users, userId)
       IN  /\ rooms' = [rooms EXCEPT ![roomId] = [room EXCEPT !.users = roomUsers]]
           /\ userObj' = [userObj EXCEPT ![userId].socketId = s,
                                         ![userId].roomId = roomId]
           /\ sockets' = [sockets EXCEPT ![s].data =
                            [NoSocketData EXCEPT !.userId = userId, !.roomId = roomId]]
           /\ timers' = [timers EXCEPT ![roomId] = @ + 1]
    /\ UNCHANGED <<lastRun, users, pairObj, pairs, micro, rounds, now, submitted, arrived, lastCall, emitted, db, cache, calls>>

\* The pair object both pairing paths build for [userA, userB].
newPair(roomId, p, round, productIndex, auto) ==
    [roomId |-> roomId, userA |-> p[1], userB |-> p[2], messages |-> <<>>,
     round |-> round, productIndex |-> productIndex,
     latestOffers |-> [A |-> NullOffer, B |-> NullOffer],
     finalDeal |-> NoDeal, startedAt |-> now, ended |-> FALSE, endedAt |-> Undefined,
     isAutoPair |-> auto]

\* The room's waiting, connected participants (checkForAutoPairing's filter).
availablePlayers(roomId) ==
    LET isAvailable(u) == userObj[u].pairId = Undefined /\ userObj[u].socketId # Undefined
    IN  SelectSeq(rooms[roomId].users, isAvailable)

\* userPairs.forEach of checkForAutoPairing: one pair object per returned pair.
RECURSIVE autoPairAll(_, _, _, _)
autoPairAll(st, roomId, userPairs, k) ==
    IF k > Len(userPairs) THEN st
    ELSE LET pairId == Len(st.pairObj) + 1
             p == userPairs[k]
         IN  autoPairAll(
               [us |-> [st.us EXCEPT ![p[1]].pairId = pairId, ![p[2]].pairId = pairId],
                pairObj |-> Append(st.pairObj, newPair(roomId, p, 1, 0, TRUE)),
                pairs |-> st.pairs \cup {pairId}],
               roomId, userPairs, k + 1)

\* The setTimeout callback of joinRoom: checkForAutoPairing(roomId).
AutoPairTimer(roomId) ==
    /\ Quiet
    /\ timers[roomId] > 0
    /\ timers' = [timers EXCEPT ![roomId] = @ - 1]
    /\ IF rooms[roomId].exists /\ Len(availablePlayers(roomId)) >= 2
       THEN /\ \A i \in DOMAIN availablePlayers(roomId) :
                    Len(userObj[availablePlayers(roomId)[i]].roleHistory) < MaxHistory
            /\ \E out \in createGamePairs(userObj, availablePlayers(roomId)) :
                 /\ Len(pairObj) + Len(out.pairs) <= MaxPairs
                 /\ LET st == autoPairAll([us |-> out.us, pairObj |-> pairObj,
                                           pairs |-> pairs], roomId, out.pairs, 1)
                    IN  /\ userObj' = st.us
                        /\ pairObj' = st.pairObj
                        /\ pairs' = st.pairs
                        /\ submitted' = trackSessions(st.pairObj)
       ELSE UNCHANGED <<userObj, pairObj, pairs, submitted>>
    /\ UNCHANGED <<lastRun, users, rooms, sockets, micro, rounds, now, arrived, lastCall, emitted, db, cache, calls>>

\* The product index startRound picks: products[(room.currentRound - 1) % length].
productIndexOf(currentRound) == (currentRound - 1) % NProducts

\* socket.on("moderator:startRound") up to `await persistence.updateRoom(...)`, at
\* most n times per room. The call's frame notes the value it set the counter to
\* (`advancedTo`); the handler itself reads room.currentRound again further on.
StartRoundBegin(s, roomId, n) ==
    /\ CanDispatch(s)
    /\ sockets[s].data.isModerator
    /\ rooms[roomId].exists
    /\ Len(rooms[roomId].users) >= 2
    /\ rooms[roomId].currentRound < n
    /\ rooms' = [rooms EXCEPT ![roomId].status = "active",
                              ![roomId].currentRound = @ + 1]
    /\ rounds' = Append(rounds, [roomId |-> roomId, stage |-> "updateRoom",
                                 userPairs |-> <<>>, next |-> 0, pairId |-> Undefined,
                                 activePairs |-> <<>>, productIndex |-> 0,
                                 advancedTo |-> rooms[roomId].currentRound + 1])
    /\ UNCHANGED <<userObj, lastRun, users, pairObj, pairs, sockets, timers, micro,
                   now, submitted, arrived, lastCall, emitted, db, cache, calls>>

\* One pass of startRound's `for (const [userA, userB] of userPairs)` up to
\* `await persistence.createPair(...)`: the k-th pair gets its id and its object.
startPair(us, po, roomId, p, productIndex) ==
    LET pairId == Len(po) + 1
    IN  [us |-> [us EXCEPT ![p[1]].pairId = pairId, ![p[2]].pairId = pairId],
         pairObj |-> Append(po, newPair(roomId, p, rooms[roomId].currentRound,
                                        productIndex, FALSE))]

\* startRound resumed after persistence.updateRoom (resolved or rejected, the
\* rejection is caught): createGamePairs on all room.users, then the first pass of
\* the loop, or the end if no pair came out.
StartRoundPairs(i) ==
    /\ Quiet
    /\ i \in DOMAIN rounds
    /\ rounds[i].stage = "updateRoom"
    /\ LET roomId == rounds[i].roomId
           updates == [status |-> "active", currentRound |-> rooms[roomId].currentRound]
       IN  /\ db' = update(persisted, "room", roomId, updates).db
           /\ cache' = update(persisted, "room", roomId, updates).cache
    /\ LET roomId == rounds[i].roomId
           room == rooms[roomId]
           productIndex == productIndexOf(room.currentRound)
       IN  /\ \A k \in DOMAIN room.users :
                  Len(userObj[room.users[k]].roleHistory) < MaxHistory
           /\ \E out \in createGamePairs(userObj, room.users) :
                /\ Len(pairObj) + Len(out.pairs) <= MaxPairs
                /\ IF Len(out.pairs) = 0
                   THEN /\ userObj' = out.us
                        /\ rooms' = [rooms EXCEPT ![roomId].pairs = <<>>]
                        /\ rounds' = RemoveAt(rounds, i)
                        /\ UNCHANGED <<pairObj, pairs, submitted>>
                   ELSE LET st == startPair(out.us, pairObj, roomId, out.pairs[1],
                                            productIndex)
                        IN  /\ userObj' = st.us
                            /\ pairObj' = st.pairObj
                            /\ pairs' = pairs \cup {Len(st.pairObj)}
                            /\ submitted' = trackSessions(st.pairObj)
                            /\ rounds' = [rounds EXCEPT ![i] =
                                  [@ EXCEPT !.stage = "createPair",
                                            !.userPairs = out.pairs, !.next = 1,
                                            !.pairId = Len(st.pairObj),
                                            !.productIndex = productIndex]]
                            /\ UNCHANGED rooms
    /\ UNCHANGED <<lastRun, users, sockets, timers, micro, now, arrived, lastCall, emitted,
                   calls>>

\* startRound resumed after persistence.createPair (resolved or rejected, the
\* rejection is caught): the pair is pushed to activePairs; then the next pass of
\* the loop, or `room.pairs = activePairs`.
StartRoundNext(i) ==
    /\ Quiet
    /\ i \in DOMAIN rounds
    /\ rounds[i].stage = "createPair"
    /\ LET pair == pairObj[rounds[i].pairId]
           pairData == [roomId |-> pair.roomId, userA |-> pair.userA,
                        userB |-> pair.userB, product |-> pair.productIndex,
                        roundNumber |-> pair.round]
       IN  /\ db' = createPair(persisted, pairData).db
           /\ cache' = createPair(persisted, pairData).cache
    /\ LET f == rounds[i]
           activePairs == Append(f.activePairs, f.pairId)
       IN  IF f.next < Len(f.userPairs)
           THEN /\ Len(pairObj) < MaxPairs
                /\ LET st == startPair(userObj, pairObj, f.roomId,
                                       f.userPairs[f.next + 1], f.productIndex)
                   IN  /\ userObj' = st.us
                       /\ pairObj' = st.pairObj
                       /\ pairs' = pairs \cup {Len(st.pairObj)}
                       /\ submitted' = trackSessions(st.pairObj)
                /\ rounds' = [rounds EXCEPT ![i] =
                                [@ EXCEPT !.next = f.next + 1,
                                          !.pairId = Len(pairObj) + 1,
                                          !.activePairs = activePairs]]
                /\ UNCHANGED rooms
           ELSE /\ rooms' = [rooms EXCEPT ![f.roomId].pairs = activePairs]
                /\ rounds' = RemoveAt(rounds, i)
                /\ UNCHANGED <<userObj, pairObj, pairs, submitted>>
    /\ UNCHANGED <<lastRun, users, sockets, timers, micro, now, arrived, lastCall, emitted,
                   calls>>

\* GameAnalytics.createDealData(pair, price), without the rendered duration.
createDealData(pair, price) ==
    [price |-> price, confirmedAt |-> now, startedAt |-> pair.startedAt,
     durationSeconds |-> roundSeconds(now - pair.startedAt),
     userA |-> pair.userA, userB |-> pair.userB, success |-> TRUE]

\* A variant that assigns whatever was extracted; C10 is tested against it.
updateLatestOffers_Always(latestOffers, role, offer) ==
    [latestOffers EXCEPT ![role] = offer]

\* chatMessage's `if (offerData.offer !== null) pair.latestOffers[role] = ...`.
updateLatestOffers(latestOffers, role, offer) ==
    IF offer # NullOffer THEN [latestOffers EXCEPT ![role] = offer] ELSE latestOffers

\* A variant that keeps only the messages an offer was extracted from; C11 is
\* tested against it.
appendMessage_OffersOnly(messages, payload) ==
    IF payload.offer # NullOffer THEN Append(messages, payload) ELSE messages

\* chatMessage's `pair.messages.push(payload)`.
appendMessage(messages, payload) == Append(messages, payload)

\* socket.on("chatMessage") up to `await extractOffer(message, role)`: the guards,
\* then user, pair and role are captured and the extraction is done.
ChatMessageArrive(s, t) ==
    /\ CanDispatch(s)
    /\ inSession(s)
    /\ Len(micro) < MaxBatch
    /\ LET userId == socketUser(s)
           pairId == userObj[userId].pairId
           role == userObj[userId].role
           waiting == Cardinality({i \in DOMAIN micro : micro[i].pairId = pairId})
       IN  /\ Len(pairObj[pairId].messages) + waiting < MaxMessages
           /\ micro' = Append(micro, [socket |-> s, userId |-> userId, pairId |-> pairId,
                                      role |-> role, message |-> t,
                                      offer |-> OfferOf[t][role]])
           /\ arrived' = Append(arrived, [pairId |-> pairId, userId |-> userId,
                                          message |-> t])
    /\ UNCHANGED <<userObj, lastRun, users, rooms, pairObj, pairs, sockets, timers,
                   rounds, now, submitted, lastCall, emitted, db, cache, calls>>

\* A variant without the try/catch around the persistence calls: a rejection
\* ends the handler before its emits. C19 is tested against it.
respond_Uncaught(logged, events) == IF logged = <<>> THEN events ELSE logged

\* What a handler puts out after its persistence calls: what the catch blocks
\* logged for the calls that rejected, then the handler's emits.
respond(logged, events) == logged \o events

\* console.error in the catch block of a persistence call that rejected.
caught(result, message) ==
    IF result.ok THEN <<>> ELSE <<[event |-> "console.error", message |-> message]>>

\* chatMessage resumed: the payload is pushed to pair.messages and a non-null offer
\* replaces latestOffers[role]. Suspended handlers resume in the order they stopped.
\* Then persistence.updatePair (after an offer) and persistence.saveMessage are
\* awaited, each in its own try/catch, and chatLog goes to the room of the pair the
\* user is in and chatMessageAck to the sender; nothing the handler reads changes
\* while it waits for the store, so these are taken in the same step.
ChatMessageResume ==
    /\ micro # <<>>
    /\ LET f == Head(micro)
           payload == [userId |-> f.userId, role |-> f.role, message |-> f.message,
                       offer |-> f.offer]
           latestOffers == updateLatestOffers(pairObj[f.pairId].latestOffers, f.role,
                                              f.offer)
           user == userObj[f.userId]
           offersSaved == IF f.offer # NullOffer
                          THEN update(persisted, "pair", user.pairId,
                                      [latestOffers |-> latestOffers])
                          ELSE settled(db, cache, TRUE)
           messageSaved ==
               saveMessage(offersSaved,
                           [pairId |-> user.pairId, userId |-> f.userId,
                            userName |-> UserData.name, role |-> f.role,
                            message |-> f.message, extractedOffer |-> f.offer,
                            offerConfidence |-> Undefined,
                            metadata |-> [errorCause |-> "none"]])
       IN  /\ pairObj' = [pairObj EXCEPT
                            ![f.pairId].messages = appendMessage(@, payload),
                            ![f.pairId].latestOffers = latestOffers]
           /\ db' = messageSaved.db
           /\ cache' = messageSaved.cache
           /\ emitted' =
                emit(f.socket,
                     respond(caught(offersSaved, "Failed to update latest offers")
                               \o caught(messageSaved, "Failed to save message to database"),
                             <<[event |-> "chatLog", room |-> user.pairId,
                                payload |-> payload],
                               [event |-> "chatMessageAck", sent |-> f.message,
                                extractedOffer |-> f.offer]>>))
    /\ micro' = Tail(micro)
    /\ UNCHANGED <<userObj, lastRun, users, rooms, pairs, sockets, timers, rounds, now,
                   submitted, arrived, lastCall, calls>>

\* A variant in which a participant's first confirmation price is kept.
ConfirmDeal_FirstPriceKept(s, price) ==
    /\ CanDispatch(s)
    /\ inSession(s)
    /\ LET userId == socketUser(s)
           pairId == userObj[userId].pairId
           pair == pairObj[pairId]
           otherUser == IF pair.userA = userId THEN pair.userB ELSE pair.userA
           confirmed == IF userObj[userId].confirmPrice = NoPrice
                        THEN [userObj EXCEPT ![userId].confirmPrice = price]
                        ELSE userObj
           dealData == createDealData(pair, price)
           dealSaved == update(persisted, "pair", pairId,
                               [finalDeal |-> dealData, status |-> "completed"])
       IN  /\ userObj' = confirmed
           /\ submitted' = [submitted EXCEPT ![pairId][userId] = <<price>>]
           /\ IF confirmed[otherUser].confirmPrice = price
              THEN /\ pairObj' = [pairObj EXCEPT ![pairId].finalDeal = dealData]
                   /\ db' = dealSaved.db
                   /\ cache' = dealSaved.cache
                   /\ emitted' =
                        emit(s, respond(caught(dealSaved, "Failed to save deal to database"),
                                        <<[event |-> "dealConfirmed", room |-> pairId,
                                           price |-> price]>>))
              ELSE UNCHANGED <<pairObj, db, cache, emitted>>
    /\ UNCHANGED <<lastRun, users, rooms, pairs, sockets, timers, micro, rounds, now,
                   arrived, lastCall, calls>>

\* socket.on("confirmDeal"): the guards, the price is recorded, and on a match the
\* deal is written to the pair; then persistence.updatePair is awaited in a
\* try/catch and dealConfirmed goes to the room of the pair the user is in, taken
\* in the same step as for chatMessage. Without a match the handler emits
\* dealPending and partnerConfirming, which the observer does not hold.
ConfirmDeal(s, price) ==
    /\ CanDispatch(s)
    /\ inSession(s)
    /\ LET userId == socketUser(s)
           pairId == userObj[userId].pairId
           pair == pairObj[pairId]
           otherUser == IF pair.userA = userId THEN pair.userB ELSE pair.userA
           confirmed == [userObj EXCEPT ![userId].confirmPrice = price]
           dealData == createDealData(pair, price)
           dealSaved == update(persisted, "pair", pairId,
                               [finalDeal |-> dealData, status |-> "completed"])
       IN  /\ userObj' = confirmed
           /\ submitted' = [submitted EXCEPT ![pairId][userId] = <<price>>]
           /\ IF confirmed[otherUser].confirmPrice = price
              THEN /\ pairObj' = [pairObj EXCEPT ![pairId].finalDeal = dealData]
                   /\ db' = dealSaved.db
                   /\ cache' = dealSaved.cache
                   /\ emitted' =
                        emit(s, respond(caught(dealSaved, "Failed to save deal to database"),
                                        <<[event |-> "dealConfirmed", room |-> pairId,
                                           price |-> price]>>))
              ELSE UNCHANGED <<pairObj, db, cache, emitted>>
    /\ UNCHANGED <<lastRun, users, rooms, pairs, sockets, timers, micro, rounds, now,
                   arrived, lastCall, calls>>

\* A variant that takes any token. C38 is tested against it.
ModeratorAuthenticate_AnyToken(s, tokenOk) ==
    /\ CanDispatch(s)
    /\ sockets' = [sockets EXCEPT ![s].data.isModerator = TRUE,
                                  ![s].data.authenticated = TRUE]
    /\ UNCHANGED <<userObj, lastRun, users, rooms, pairObj, pairs, timers, micro,
                   rounds, now, submitted, arrived, lastCall, emitted, db, cache, calls>>

\* socket.on("moderator:authenticate"); a wrong token only emits an error.
ModeratorAuthenticate(s, tokenOk) ==
    /\ CanDispatch(s)
    /\ sockets' = IF tokenOk
                  THEN [sockets EXCEPT ![s].data.isModerator = TRUE,
                                       ![s].data.authenticated = TRUE]
                  ELSE sockets
    /\ UNCHANGED <<userObj, lastRun, users, rooms, pairObj, pairs, timers, micro,
                   rounds, now, submitted, arrived, lastCall, emitted, db, cache, calls>>

\* A variant that ends the open sessions of every room.
EndRound_AnyRoom(s, roomId) ==
    /\ CanDispatch(s)
    /\ sockets[s].data.isModerator /\ sockets[s].data.authenticated
    /\ rooms[roomId].exists
    /\ pairObj' = [q \in DOMAIN pairObj |->
                     IF q \in pairs /\ ~pairObj[q].finalDeal.success
                     THEN [pairObj[q] EXCEPT !.ended = TRUE, !.endedAt = now]
                     ELSE pairObj[q]]
    /\ UNCHANGED <<userObj, lastRun, users, rooms, pairs, sockets, timers, micro,
                   rounds, now, submitted, arrived, lastCall, emitted, db, cache, calls>>

\* socket.on("moderator:endRound")
EndRound(s, roomId) ==
    /\ CanDispatch(s)
    /\ sockets[s].data.isModerator /\ sockets[s].data.authenticated
    /\ rooms[roomId].exists
    /\ pairObj' = [q \in DOMAIN pairObj |->
                     IF q \in pairs /\ pairObj[q].roomId = roomId
                                    /\ ~pairObj[q].finalDeal.success
                     THEN [pairObj[q] EXCEPT !.ended = TRUE, !.endedAt = now]
                     ELSE pairObj[q]]
    /\ UNCHANGED <<userObj, lastRun, users, rooms, pairs, sockets, timers, micro,
                   rounds, now, submitted, arrived, lastCall, emitted, db, cache, calls>>

\* socket.on("disconnect")
Disconnect(s) ==
    /\ Quiet
    /\ sockets[s].state = "open"
    /\ sockets' = [sockets EXCEPT ![s].state = "idle"]
    /\ userObj' = IF socketUser(s) # Undefined /\ socketUser(s) \in users
                  THEN [userObj EXCEPT ![socketUser(s)].socketId = Undefined]
                  ELSE userObj
    /\ UNCHANGED <<lastRun, users, rooms, pairObj, pairs, timers, micro, rounds, now,
                   submitted, arrived, lastCall, emitted, db, cache, calls>>

\* socket.on("leaveRoom"); socket.data keeps naming the participant.
LeaveRoom(s, roomId) ==
    /\ CanDispatch(s)
    /\ socketUser(s) # Undefined
    /\ socketUser(s) \in users
    /\ rooms[roomId].exists
    /\ rooms' = [rooms EXCEPT ![roomId].users =
                    SelectSeq(@, LAMBDA u : u # socketUser(s))]
    /\ userObj' = [userObj EXCEPT ![socketUser(s)].roomId = Undefined,
                                  ![socketUser(s)].socketId = Undefined]
    /\ UNCHANGED <<lastRun, users, pairObj, pairs, sockets, timers, micro, rounds, now,
                   submitted, arrived, lastCall, emitted, db, cache, calls>>

\* socket.on("moderator:resetRoom") from an authenticated moderator: the room's
\* participants and sessions leave the stores (the objects stay on the heap) and
\* the room starts over without a round number or a status.
ResetRoom(s, roomId) ==
    /\ CanDispatch(s)
    /\ sockets[s].data.isModerator /\ sockets[s].data.authenticated
    /\ rooms[roomId].exists
    /\ users' = users \ Range(rooms[roomId].users)
    /\ pairs' = {q \in pairs : pairObj[q].roomId # roomId}
    /\ rooms' = [rooms EXCEPT ![roomId] = [NoRoom EXCEPT !.exists = TRUE]]
    /\ UNCHANGED <<userObj, lastRun, pairObj, sockets, timers, micro, rounds, now,
                   submitted, arrived, lastCall, emitted, db, cache, calls>>

\* A handler that rejects an event: socket.emit("error", { message }) and return.
reject(s, message) ==
    /\ emitted' = emit(s, <<[event |-> "error", message |-> message]>>)
    /\ UNCHANGED <<userObj, lastRun, users, rooms, pairObj, pairs, sockets, timers,
                   micro, rounds, now, submitted, arrived, lastCall, db, cache, calls>>

\* A variant of joinRoom's first guard that initialises the room before it looks
\* the participant up; C14 is tested against it.
JoinRoomUnknown_RoomFirst(s, userId, roomId) ==
    /\ CanDispatch(s)
    /\ userId \notin users
    /\ rooms' = [rooms EXCEPT ![roomId] =
                    IF @.exists THEN @
                    ELSE [NoRoom EXCEPT !.exists = TRUE, !.status = "waiting"]]
    /\ emitted' = emit(s, <<[event |-> "error", message |-> "User not found"]>>)
    /\ UNCHANGED <<userObj, lastRun, users, pairObj, pairs, sockets, timers,
                   micro, rounds, now, submitted, arrived, lastCall, db, cache, calls>>

\* joinRoom naming a participant the `users` store does not hold.
JoinRoomUnknown(s, userId, roomId) ==
    /\ CanDispatch(s)
    /\ userId \notin users
    /\ reject(s, "User not found")

\* The error the shared guards of chatMessage and confirmDeal answer with.
sessionError(s) ==
    IF socketUser(s) = Undefined THEN "Not registered"
    ELSE IF socketUser(s) \notin users \/ userObj[socketUser(s)].pairId = Undefined
         THEN "Not in a pair"
         ELSE "Pair not found"

\* chatMessage stopped by one of its three guards.
ChatMessageRejected(s) ==
    /\ CanDispatch(s)
    /\ ~inSession(s)
    /\ reject(s, sessionError(s))

\* confirmDeal stopped by one of its three guards.
ConfirmDealRejected(s) ==
    /\ CanDispatch(s)
    /\ ~inSession(s)
    /\ reject(s, sessionError(s))

\* moderator:startRound from a connection that is not a moderator's.
StartRoundRejected(s) ==
    /\ CanDispatch(s)
    /\ ~sockets[s].data.isModerator
    /\ reject(s, "Unauthorized - moderator access required")

\* moderator:endRound from a connection that is not an authenticated moderator's.
EndRoundRejected(s) ==
    /\ CanDispatch(s)
    /\ ~(sockets[s].data.isModerator /\ sockets[s].data.authenticated)
    /\ reject(s, "Unauthorized - moderator access required")

\* moderator:resetRoom from a connection that is not an authenticated moderator's.
ResetRoomRejected(s) ==
    /\ CanDispatch(s)
    /\ ~(sockets[s].data.isModerator /\ sockets[s].data.authenticated)
    /\ reject(s, "Unauthorized - moderator access required")

\* Time passes: new Date() advances.
Tick ==
    /\ now < MaxTicks * TickMs
    /\ now' = now + TickMs
    /\ UNCHANGED <<userObj, lastRun, users, rooms, pairObj, pairs, sockets, timers,
                   micro, rounds, submitted, arrived, lastCall, emitted, db, cache, calls>>

\* Time passes in quarter seconds, one or four at a time.
Elapse(quarters) ==
    /\ now + quarters * QuarterMs <= MaxElapsed * QuarterMs
    /\ now' = now + quarters * QuarterMs
    /\ UNCHANGED <<userObj, lastRun, users, rooms, pairObj, pairs, sockets, timers,
                   micro, rounds, submitted, arrived, lastCall, emitted, db, cache, calls>>

\* Participants arrive: survey, connection, joinRoom and its auto-pairing timer.
Arrive(n) ==
    \/ SurveySubmit(n)
    \/ \E s \in (1..n) \cup {Dashboard} : Connect(s)
    \/ \E s \in 1..n, r \in RoomIds : JoinRoom(s, s, r)
    \/ \E r \in RoomIds : AutoPairTimer(r)

\* The moderator authenticates and starts rounds.
Moderate(n) ==
    \/ \E tokenOk \in BOOLEAN : ModeratorAuthenticate(Dashboard, tokenOk)
    \/ \E s \in SocketIds, r \in RoomIds : StartRoundBegin(s, r, n)
    \/ \E i \in 1..n : StartRoundPairs(i)
    \/ \E i \in 1..n : StartRoundNext(i)

\* The session life cycle: pairing, confirmation, round end, time.
Next ==
    \/ Arrive(NNegotiators)
    \/ Moderate(MaxRounds)
    \/ \E s \in SocketIds, price \in Prices : ConfirmDeal(s, price)
    \/ \E s \in SocketIds, r \in RoomIds : EndRound(s, r)
    \/ Tick

Spec == Init /\ [][Next]_vars

\* The chat of the sessions: pairing and chatMessage.
NextChat ==
    \/ Arrive(NNegotiators)
    \/ Moderate(MaxRounds)
    \/ \E s \in SocketIds, t \in ChatTexts : ChatMessageArrive(s, t)
    \/ ChatMessageResume

SpecChat == Init /\ [][NextChat]_vars

\* ------------------------------------------------- who may moderate
\* The id uuidv4() gives to the user that register creates; ids from 1 up are
\* those of the surveyed participants.
RegisteredIds == {NUsers}

\* socket.on("register"): the room is created if missing (without a round counter
\* or status), the user is created and put into the room, or, known, gets the new
\* socket; socket.data is replaced and carries isModerator, which is true exactly
\* when this event's moderatorToken is MODERATOR_TOKEN (tokenOk).
Register(s, roomId, existingUserId, tokenOk) ==
    /\ CanDispatch(s)
    /\ existingUserId \in users \/ RegisteredIds \ users # {}
    /\ LET room == IF rooms[roomId].exists THEN rooms[roomId]
                   ELSE [NoRoom EXCEPT !.exists = TRUE]
           known == existingUserId \in users
           userId == IF known THEN existingUserId
                     ELSE CHOOSE u \in RegisteredIds \ users :
                             \A v \in RegisteredIds \ users : u <= v
       IN  /\ users' = users \cup {userId}
           /\ userObj' = IF known THEN [userObj EXCEPT ![userId].socketId = s]
                          ELSE [userObj EXCEPT ![userId] =
                                  [NewUser EXCEPT !.socketId = s, !.roomId = roomId]]
           /\ rooms' = [rooms EXCEPT ![roomId] =
                          IF known THEN room
                          ELSE [room EXCEPT !.users = Append(@, userId)]]
           /\ sockets' = [sockets EXCEPT ![s].data =
                            [NoSocketData EXCEPT !.userId = userId, !.roomId = roomId,
                                                 !.isModerator = tokenOk]]
    /\ UNCHANGED <<lastRun, pairObj, pairs, timers, micro, rounds, now, submitted,
                   arrived, lastCall, emitted, db, cache, calls>>

\* socket.on("joinGameInterface") for a known user: the user gets the socket and
\* socket.data is replaced by { userId, roomId: user.roomId }.
JoinGameInterface(s, userId) ==
    /\ CanDispatch(s)
    /\ userId \in users
    /\ userObj' = [userObj EXCEPT ![userId].socketId = s]
    /\ sockets' = [sockets EXCEPT ![s].data =
                     [NoSocketData EXCEPT !.userId = userId,
                                          !.roomId = userObj[userId].roomId]]
    /\ UNCHANGED <<users, rooms, lastRun, pairObj, pairs, timers, micro, rounds, now, submitted,
                   arrived, lastCall, emitted, db, cache, calls>>

\* The connection that never presents MODERATOR_TOKEN: a participant's browser.
Tokenless == {1}

SocketsToken == Tokenless \cup {Dashboard}

mayPresent(s, tokenOk) == s \in Tokenless => ~tokenOk

\* Everything a connection can send on the way to a moderator event, with and
\* without the token, and the three moderator events from both connections.
NextToken ==
    \/ SurveySubmit(1)
    \/ \E s \in SocketsToken : Connect(s)
    \/ \E s \in Tokenless, r \in RoomIds : JoinRoom(s, s, r)
    \/ \E s \in SocketsToken, tokenOk \in BOOLEAN :
          /\ mayPresent(s, tokenOk)
          /\ ModeratorAuthenticate(s, tokenOk)
    \/ \E s \in SocketsToken, r \in RoomIds, tokenOk \in BOOLEAN :
          /\ mayPresent(s, tokenOk)
          /\ \E existingUserId \in users \cup {Undefined} :
                Register(s, r, existingUserId, tokenOk)
    \/ \E s \in Tokenless, userId \in UserIds : JoinGameInterface(s, userId)
    \/ \E s \in SocketsToken, r \in RoomIds : StartRoundBegin(s, r, MaxRounds)
    \/ \E i \in 1..MaxRounds : StartRoundPairs(i)
    \/ \E i \in 1..MaxRounds : StartRoundNext(i)
    \/ \E s \in SocketsToken, r \in RoomIds : EndRound(s, r)
    \/ \E s \in SocketsToken, r \in RoomIds : ResetRoom(s, r)
    \/ \E s \in SocketsToken : StartRoundRejected(s)
    \/ \E s \in SocketsToken : EndRoundRejected(s)
    \/ \E s \in SocketsToken : ResetRoomRejected(s)

SpecToken == Init /\ [][NextToken]_vars

\* ------------------------------------------------- waiting for a partner
\* Two participants come, go and come back; the only thing that runs by itself is
\* the timer joinRoom sets, and a set timer does run.
NextWait ==
    \/ SurveySubmit(NNegotiators)
    \/ \E s \in 1..NNegotiators : Connect(s)
    \/ \E s \in 1..NNegotiators : Disconnect(s)
    \/ \E s \in 1..NNegotiators, r \in RoomIds : JoinRoom(s, s, r)
    \/ \E s \in 1..NNegotiators : JoinGameInterface(s, s)
    \/ \E r \in RoomIds : AutoPairTimer(r)

SpecWait ==
    /\ Init
    /\ [][NextWait]_vars
    /\ \A r \in RoomIds : WF_vars(AutoPairTimer(r))

\* ------------------------------------------------- the rooms module
\* The module of src/src/results.js that keeps pairs in state.pairs, with its own
\* createPair, appendOffer and confirmDeal. Its state.pairs is kept in pairObj and
\* pairs, its users in userObj, a room's activePairs in rooms, and what a call
\* returned in lastCall.
RoomUser == [partnerId |-> Undefined, status |-> "new", previousPartners |-> {}]

RoomUserIds == 1..NParticipants

InitRooms ==
    /\ userObj = [u \in UserIds |-> RoomUser]
    /\ lastRun = NoRun
    /\ users = RoomUserIds
    /\ rooms = [r \in RoomIds |-> [activePairs |-> {}]]
    /\ pairObj = <<>>
    /\ pairs = {}
    /\ sockets = [s \in SocketIds |-> IdleSocket]
    /\ timers = [r \in RoomIds |-> 0]
    /\ micro = <<>>
    /\ rounds = <<>>
    /\ now = 0
    /\ submitted = <<>>
    /\ arrived = <<>>
    /\ lastCall = NoCall
    /\ emitted = NoEmit
    /\ db = EmptyStore
    /\ cache = EmptyCache
    /\ calls = <<>>

\* createPair(userA, userB, roomId, roundNumber, item)
RoomsCreatePair(userA, userB, roomId) ==
    /\ userA # userB
    /\ Len(pairObj) < MaxRoomPairs
    /\ LET pairId == Len(pairObj) + 1
           pair == [pairId |-> pairId, roomId |-> roomId, users |-> <<userA, userB>>,
                    roundNumber |-> 1, offers |-> <<>>,
                    latestOffers |-> [A |-> NullOffer, B |-> NullOffer],
                    finalDeal |-> NoDeal, confirmedBy |-> {}]
       IN  /\ pairObj' = Append(pairObj, pair)
           /\ pairs' = pairs \cup {pairId}
           /\ rooms' = [rooms EXCEPT ![roomId].activePairs = @ \cup {pairId}]
           /\ userObj' = [userObj EXCEPT
                            ![userA] = [@ EXCEPT !.partnerId = userB, !.status = "paired",
                                                 !.previousPartners = @ \cup {userB}],
                            ![userB] = [@ EXCEPT !.partnerId = userA, !.status = "paired",
                                                 !.previousPartners = @ \cup {userA}]]
           /\ lastCall' = [fn |-> "createPair", arg |-> <<userA, userB, roomId>>,
                           result |-> pair]
    /\ UNCHANGED <<lastRun, users, sockets, timers, micro, rounds, now, submitted,
                   arrived, emitted, db, cache, calls>>

\* appendOffer(pairId, parsed)
RoomsAppendOffer(pairId, parsed) ==
    /\ pairId \in pairs
    /\ Len(pairObj[pairId].offers) < MaxMessages
    /\ pairObj' = [pairObj EXCEPT
                     ![pairId].offers = Append(@, parsed),
                     ![pairId].latestOffers =
                        updateLatestOffers(@, parsed.role, parsed.offer)]
    /\ lastCall' = [fn |-> "appendOffer", arg |-> <<pairId, parsed>>,
                    result |-> Undefined]
    /\ UNCHANGED <<userObj, lastRun, users, rooms, pairs, sockets, timers, micro,
                   rounds, now, submitted, arrived, emitted, db, cache, calls>>

\* The price confirmDeal settles on: the call's price if it is a number, else the
\* seller's latest offer, else the buyer's, else null.
okPrice(pair, price) ==
    IF price # NoPrice THEN price
    ELSE IF pair.latestOffers.A # NullOffer THEN pair.latestOffers.A
    ELSE pair.latestOffers.B

\* confirmDeal(pairId, userId, price)
RoomsConfirmDeal(pairId, userId, price) ==
    /\ IF pairId \notin pairs
       THEN /\ lastCall' = [fn |-> "confirmDeal", arg |-> <<pairId, userId, price>>,
                            result |-> [changed |-> FALSE]]
            /\ UNCHANGED pairObj
       ELSE LET confirmedBy == pairObj[pairId].confirmedBy \cup {userId}
                locked == Cardinality(confirmedBy) = 2
                             /\ okPrice(pairObj[pairId], price) # NullOffer
            IN  /\ pairObj' = [pairObj EXCEPT
                                 ![pairId].confirmedBy = confirmedBy,
                                 ![pairId].finalDeal =
                                    IF locked
                                    THEN [price |-> okPrice(pairObj[pairId], price),
                                          success |-> TRUE]
                                    ELSE @]
                /\ lastCall' = [fn |-> "confirmDeal", arg |-> <<pairId, userId, price>>,
                                result |->
                                   IF locked
                                   THEN [changed |-> TRUE, locked |-> TRUE,
                                         price |-> okPrice(pairObj[pairId], price)]
                                   ELSE [changed |-> TRUE, locked |-> FALSE]]
    /\ UNCHANGED <<userObj, lastRun, users, rooms, pairs, sockets, timers, micro,
                   rounds, now, submitted, arrived, emitted, db, cache, calls>>

NextRooms ==
    \/ \E userA, userB \in RoomUserIds, r \in RoomIds : RoomsCreatePair(userA, userB, r)
    \/ \E pairId \in 1..MaxRoomPairs, role \in {"A", "B"}, offer \in {250, NullOffer} :
          RoomsAppendOffer(pairId, [role |-> role, offer |-> offer])
    \/ \E pairId \in 1..(MaxRoomPairs + 1), userId \in RoomUserIds,
          price \in Prices \cup {NoPrice} :
          RoomsConfirmDeal(pairId, userId, price)

SpecRooms == InitRooms /\ [][NextRooms]_vars

\* ------------------------------------------------- chat with its store calls
\* chatMessage with each await of its own: after `await extractOffer` the handlers
\* resume in the order they stopped; after that each waits for its own queries,
\* which the connection pool runs side by side. A handler waiting for the store
\* is a frame in `calls`; seq is the place of its message among the arrivals and
\* storedPair the user.pairId its pending query was called with.
stillExtracting == Len(arrived) - Len(micro)

\* chatMessage resumed from `await extractOffer`: the payload is pushed, a non-null
\* offer replaces latestOffers[role] and persistence.updatePair is called; without
\* an offer persistence.saveMessage is called right away.
ChatMessageExtracted ==
    /\ micro # <<>>
    /\ LET f == Head(micro)
           payload == [userId |-> f.userId, role |-> f.role, message |-> f.message,
                       offer |-> f.offer]
           latestOffers == updateLatestOffers(pairObj[f.pairId].latestOffers, f.role,
                                              f.offer)
       IN  /\ pairObj' = [pairObj EXCEPT
                            ![f.pairId].messages = appendMessage(@, payload),
                            ![f.pairId].latestOffers = latestOffers]
           /\ calls' = Append(calls,
                              [op |-> IF f.offer # NullOffer THEN "updatePair"
                                      ELSE "saveMessage",
                               frame |-> f, seq |-> stillExtracting + 1,
                               storedPair |-> userObj[f.userId].pairId,
                               latestOffers |-> latestOffers])
    /\ micro' = Tail(micro)
    /\ UNCHANGED <<userObj, lastRun, users, rooms, pairs, sockets, timers, rounds, now,
                   submitted, arrived, lastCall, emitted, db, cache>>

\* A query of a waiting chatMessage handler settles. After updatePair the handler
\* calls saveMessage; after saveMessage it emits chatLog to the pair's room and
\* chatMessageAck to the sender and ends.
ChatMessageSettle(i) ==
    /\ i \in DOMAIN calls
    /\ LET c == calls[i]
           f == c.frame
           offersSaved == update(persisted, "pair", c.storedPair,
                                 [latestOffers |-> c.latestOffers])
           messageSaved ==
               saveMessage(persisted,
                           [pairId |-> c.storedPair, userId |-> f.userId,
                            userName |-> UserData.name, role |-> f.role,
                            message |-> f.message, extractedOffer |-> f.offer,
                            offerConfidence |-> Undefined,
                            metadata |-> [errorCause |-> "none"]])
       IN  IF c.op = "updatePair"
           THEN /\ db' = offersSaved.db
                /\ cache' = offersSaved.cache
                /\ calls' = [calls EXCEPT ![i].op = "saveMessage",
                                          ![i].storedPair = userObj[f.userId].pairId]
                /\ emitted' = emit(f.socket,
                                   caught(offersSaved, "Failed to update latest offers"))
           ELSE /\ db' = messageSaved.db
                /\ cache' = messageSaved.cache
                /\ calls' = SubSeq(calls, 1, i - 1) \o SubSeq(calls, i + 1, Len(calls))
                /\ emitted' =
                     emit(f.socket,
                          respond(caught(messageSaved, "Failed to save message to database"),
                                  <<[event |-> "chatLog", room |-> userObj[f.userId].pairId,
                                     payload |-> [userId |-> f.userId, role |-> f.role,
                                                  message |-> f.message, offer |-> f.offer]],
                                    [event |-> "chatMessageAck", sent |-> f.message,
                                     extractedOffer |-> f.offer]>>))
    /\ UNCHANGED <<userObj, lastRun, users, rooms, pairObj, pairs, sockets, timers,
                   micro, rounds, now, submitted, arrived, lastCall>>

\* The two negotiators of an auto-paired session, a text with an offer and one
\* without.
OrderTexts == {2, 5}

NextOrder ==
    \/ Arrive(NNegotiators)
    \/ \E s \in 1..NNegotiators, t \in OrderTexts : ChatMessageArrive(s, t)
    \/ ChatMessageExtracted
    \/ \E i \in 1..MaxMessages : ChatMessageSettle(i)

SpecOrder == Init /\ [][NextOrder]_vars

\* Pairing: three participants who come and go, both pairing paths.
NextPairing ==
    \/ Arrive(NParticipants)
    \/ Moderate(MaxRounds)
    \/ \E s \in SocketIds : Disconnect(s)

SpecPairing == Init /\ [][NextPairing]_vars

\* Deals over time: two participants, auto-pairing, confirmation, a fine clock.
NextDeal ==
    \/ Arrive(NNegotiators)
    \/ \E s \in SocketIds, price \in Prices : ConfirmDeal(s, price)
    \/ \E quarters \in {1, 4} : Elapse(quarters)

SpecDeal == Init /\ [][NextDeal]_vars

\* Overlapping rounds: two participants, auto-pairing, two round starts per room.
NextRounds ==
    \/ Arrive(NNegotiators)
    \/ Moderate(MaxStarts)

SpecRounds == Init /\ [][NextRounds]_vars

\* Ending a round: four participants who have answered the survey, two rooms, two
\* participants for each room, one price, the clock held at a time after the start.
RoomsEnd == 1..NRoomsEnd
roomOf(u) == (u + 1) \div 2
SocketsEnd == UserIds \cup {Dashboard}

RECURSIVE surveyed(_, _)
surveyed(st, n) == IF n = 0 THEN st ELSE createUser(surveyed(st, n - 1), UserData)

InitEnd ==
    /\ userObj = [u \in UserIds |-> NewUser]
    /\ lastRun = NoRun
    /\ users = UserIds
    /\ rooms = [r \in RoomsEnd |-> NoRoom]
    /\ pairObj = <<>>
    /\ pairs = {}
    /\ sockets = [s \in SocketsEnd |-> IdleSocket]
    /\ timers = [r \in RoomsEnd |-> 0]
    /\ micro = <<>>
    /\ rounds = <<>>
    /\ now = TickMs
    /\ submitted = <<>>
    /\ arrived = <<>>
    /\ lastCall = NoCall
    /\ emitted = NoEmit
    /\ db = surveyed([db |-> EmptyStore, cache |-> EmptyCache], NUsers).db
    /\ cache = surveyed([db |-> EmptyStore, cache |-> EmptyCache], NUsers).cache
    /\ calls = <<>>

NextEnd ==
    \/ \E s \in SocketsEnd : Connect(s)
    \/ \E s \in UserIds : JoinRoom(s, s, roomOf(s))
    \/ \E r \in RoomsEnd : AutoPairTimer(r)
    \/ \E tokenOk \in BOOLEAN : ModeratorAuthenticate(Dashboard, tokenOk)
    \/ \E s \in UserIds : ConfirmDeal(s, 250)
    \/ \E s \in SocketsEnd, r \in RoomsEnd : EndRound(s, r)

SpecEnd == InitEnd /\ [][NextEnd]_vars

\* Revised confirmations: two participants, auto-pairing; participant 1 confirms
\* the prices of Revision in their order, participant 2 confirms any price.
Revision == <<250, 260>>

ReviseDeal ==
    \E k \in DOMAIN Revision :
        /\ userObj[1].confirmPrice = (IF k = 1 THEN NoPrice ELSE Revision[k - 1])
        /\ ConfirmDeal(1, Revision[k])

NextRevise ==
    \/ Arrive(NNegotiators)
    \/ ReviseDeal
    \/ \E price \in Prices : ConfirmDeal(2, price)

SpecRevise == Init /\ [][NextRevise]_vars

\* The offer extractor on its own: texts made of an opening and an amount, for
\* every role a sender can hold. The function reads nothing but its arguments: one
\* call per behaviour covers all.
Openings == <<
    <<"I", " ", "c", "a", "n", " ", "s", "e", "l", "l", " ", "t", "h", "i", "s", " ", "f", "o", "r", " ">>,
    <<"H", "o", "w", " ", "a", "b", "o", "u", "t", " ">>,
    <<"I", " ", "c", "a", "n", " ", "o", "f", "f", "e", "r", " ">>,
    <<"t", "o", "o", " ", "h", "i", "g", "h", ",", " ">>,
    <<"i", "P", "h", "o", "n", "e", " ">>,
    <<"D", "e", "a", "l", " ", "a", "t", " ">>,
    <<"1", "4", " ", "o", "r", " ", "i", "P", "h", "o", "n", "e", " ">>,
    <<>>
>>

Amounts == <<
    <<"$", "5", "0", "0">>,
    <<"5", "0", "0">>,
    <<"$", "3", "0", "0">>,
    <<"1", "4">>,
    <<"$", "5">>,
    <<"$", "2", "0", "0", "0", "0">>
>>

ExtractOffer ==
    \E i \in DOMAIN Openings, j \in DOMAIN Amounts, role \in {"A", "B", NoRole} :
        /\ lastCall = NoCall
        /\ lastCall' = [fn |-> "extractOffer",
                        arg |-> [text |-> Openings[i] \o Amounts[j], role |-> role],
                        result |-> extractOffer(Openings[i] \o Amounts[j], role)]
        /\ UNCHANGED <<userObj, lastRun, users, rooms, pairObj, pairs, sockets, timers,
                       micro, rounds, now, submitted, arrived, emitted, db, cache, calls>>

NextExtract == ExtractOffer

SpecExtract == Init /\ [][NextExtract]_vars

\* The selection on its own: up to MaxCandidates scored candidates, with
\* confidences the scoring can produce (0.05, 0.09, 0.1, 0.3, 0.36, 0.468, 0.9,
\* 1.08), for every role.
Candidates ==
    [value : {250, 260, 300},
     context : {"offer_phrase", "neutral", "rejection_context", "model_number"},
     confidence : {500, 1000, 3000, 3600, 4680, 9000, 10800}]

CandidateLists ==
    UNION {[1..n -> Candidates] : n \in 0..MaxCandidates}

SelectOffer ==
    \E numbers \in CandidateLists, role \in {"A", "B", NoRole} :
        /\ lastCall = NoCall
        /\ lastCall' = [fn |-> "selectOffer",
                        arg |-> [numbers |-> numbers, role |-> role],
                        result |-> selectOffer(numbers, role)]
        /\ UNCHANGED <<userObj, lastRun, users, rooms, pairObj, pairs, sockets, timers,
                       micro, rounds, now, submitted, arrived, emitted, db, cache, calls>>

NextSelect == SelectOffer

SpecSelect == Init /\ [][NextSelect]_vars

\* First confirmations: two participants, both pairing paths, confirmDeal with
\* either price or without one.
NextFirst ==
    \/ Arrive(NNegotiators)
    \/ Moderate(MaxRounds)
    \/ \E s \in SocketIds, price \in Prices \cup {NoPrice} : ConfirmDeal(s, price)

SpecFirst == Init /\ [][NextFirst]_vars

\* Changing rooms: the surveyed participants of InitEnd, two of whom connect,
\* join and leave either room, with auto-pairing.
NextMove ==
    \/ \E s \in 1..NNegotiators : Connect(s)
    \/ \E s \in 1..NNegotiators, r \in RoomsEnd : JoinRoom(s, s, r)
    \/ \E s \in 1..NNegotiators, r \in RoomsEnd : LeaveRoom(s, r)
    \/ \E r \in RoomsEnd : AutoPairTimer(r)

SpecMove == InitEnd /\ [][NextMove]_vars

\* The events the handlers turn away.
Rejections ==
    \/ \E s \in SocketIds, r \in RoomIds : JoinRoomUnknown(s, s, r)
    \/ \E s \in SocketIds : ChatMessageRejected(s)
    \/ \E s \in SocketIds : ConfirmDealRejected(s)
    \/ \E s \in SocketIds : StartRoundRejected(s)
    \/ \E s \in SocketIds : EndRoundRejected(s)
    \/ \E s \in SocketIds : ResetRoomRejected(s)

\* Rejected events among accepted ones: two participants, auto-pairing,
\* confirmation, leaving, a reset.
NextReject ==
    \/ Arrive(NNegotiators)
    \/ \E tokenOk \in BOOLEAN : ModeratorAuthenticate(Dashboard, tokenOk)
    \/ \E s \in SocketIds, price \in Prices : ConfirmDeal(s, price)
    \/ \E s \in SocketIds, r \in RoomIds : LeaveRoom(s, r)
    \/ \E s \in SocketIds, r \in RoomIds : ResetRoom(s, r)
    \/ Rejections

SpecReject == Init /\ [][NextReject]_vars

\* ------------------------------------------- the persistence layer on its own
\* The arguments the callers pass: the test scripts' pair and deal, the server's
\* offer, room and message updates, and user updates that name a connection, a
\* pairing and a role.
PairData ==
    {[roomId |-> r, userA |-> 1, userB |-> 2, product |-> "Test Product",
      roundNumber |-> 1] : r \in RoomIds}

TestDeal == [price |-> 250, confirmedAt |-> 0, userA |-> 1, userB |-> 2, success |-> TRUE]

Updates ==
    [user |-> {[socketId |-> Dashboard], [pairId |-> StoreIds + 1, role |-> "A"],
               [role |-> "B"]},
     room |-> {[status |-> "active", currentRound |-> 1]},
     pair |-> {[latestOffers |-> [A |-> 250, B |-> NullOffer]],
               [finalDeal |-> TestDeal, status |-> "completed"]}]

EntityIds == [user |-> 1..MaxRows, room |-> RoomIds,
              pair |-> {StoreIds + k : k \in 1..MaxStoredPairs}]

MessageData ==
    {[pairId |-> q, userId |-> 1, userName |-> "P", role |-> "A", message |-> "250",
      extractedOffer |-> 250, offerConfidence |-> OfferPhraseConfidence,
      metadata |-> [errorCause |-> "none"]] : q \in EntityIds.pair}

\* The calls of one method that are in flight.
inFlight(op) == Cardinality({i \in DOMAIN calls : calls[i].op = op})

\* A PersistenceManager method is called and runs up to its await Database call.
begin(call) ==
    /\ Len(calls) < MaxInFlight
    /\ calls' = Append(calls, call)
    /\ UNCHANGED <<userObj, lastRun, users, rooms, pairObj, pairs, sockets, timers,
                   micro, rounds, now, submitted, arrived, lastCall, emitted, db, cache>>

BeginCreateUser ==
    /\ Len(db.users) + inFlight("createUser") < MaxRows
    /\ begin([op |-> "createUser", arg |-> UserData])

BeginGetUser(userId) ==
    /\ userId \notin DOMAIN cache.users
    /\ begin([op |-> "getUser", arg |-> userId])

BeginUpdateUser(userId, updates) ==
    /\ updates \in Updates.user
    /\ begin([op |-> "update", type |-> "user", id |-> userId, arg |-> updates])

BeginEnsureRoom(roomId) ==
    /\ roomId \notin DOMAIN cache.rooms
    /\ begin([op |-> "ensureRoom", arg |-> roomId])

BeginUpdateRoom(roomId, updates) ==
    /\ updates \in Updates.room
    /\ begin([op |-> "update", type |-> "room", id |-> roomId, arg |-> updates])

BeginCreatePair(pairData) ==
    /\ Len(db.pairs) + inFlight("createPair") < MaxStoredPairs
    /\ begin([op |-> "createPair", arg |-> pairData])

BeginGetPair(pairId) ==
    /\ pairId \notin DOMAIN cache.pairs
    /\ begin([op |-> "getPair", arg |-> pairId])

BeginUpdatePair(pairId, updates) ==
    /\ updates \in Updates.pair
    /\ begin([op |-> "update", type |-> "pair", id |-> pairId, arg |-> updates])

BeginSaveMessage(messageData) ==
    /\ Len(db.messages) + inFlight("saveMessage") < MaxSaved
    /\ begin([op |-> "saveMessage", arg |-> messageData])

\* What the call leaves behind when its statement settles now.
outcome(call) ==
    LET st == [db |-> db, cache |-> cache]
    IN  CASE call.op = "createUser" -> createUser(st, call.arg)
          [] call.op = "getUser" -> getUser(st, call.arg)
          [] call.op = "ensureRoom" -> ensureRoom(st, call.arg)
          [] call.op = "createPair" -> createPair(st, call.arg)
          [] call.op = "getPair" -> getPair(st, call.arg)
          [] call.op = "saveMessage" -> saveMessage(st, call.arg)
          [] call.op = "update" -> update(st, call.type, call.id, call.arg)

\* The Database call of a suspended method settles and the method runs to its end.
\* Calls settle in any order.
Settle(i) ==
    /\ i \in DOMAIN calls
    /\ db' = outcome(calls[i]).db
    /\ cache' = outcome(calls[i]).cache
    /\ calls' = RemoveAt(calls, i)
    /\ UNCHANGED <<userObj, lastRun, users, rooms, pairObj, pairs, sockets, timers,
                   micro, rounds, now, submitted, arrived, lastCall, emitted>>

\* The process is restarted between calls: the cache is empty again, the store
\* is intact.
Restart ==
    /\ calls = <<>>
    /\ cache # EmptyCache
    /\ cache' = EmptyCache
    /\ UNCHANGED <<userObj, lastRun, users, rooms, pairObj, pairs, sockets, timers,
                   micro, rounds, now, submitted, arrived, lastCall, emitted, db, calls>>

\* The store becomes unreachable, or reachable again.
StoreFails ==
    /\ db.up
    /\ db' = [db EXCEPT !.up = FALSE]
    /\ UNCHANGED <<userObj, lastRun, users, rooms, pairObj, pairs, sockets, timers,
                   micro, rounds, now, submitted, arrived, lastCall, emitted, cache, calls>>

StoreRecovers ==
    /\ ~db.up
    /\ db' = [db EXCEPT !.up = TRUE]
    /\ UNCHANGED <<userObj, lastRun, users, rooms, pairObj, pairs, sockets, timers,
                   micro, rounds, now, submitted, arrived, lastCall, emitted, cache, calls>>

NextPersist ==
    \/ BeginCreateUser
    \/ \E userId \in EntityIds.user : BeginGetUser(userId)
    \/ \E userId \in EntityIds.user, updates \in Updates.user :
          BeginUpdateUser(userId, updates)
    \/ \E roomId \in EntityIds.room : BeginEnsureRoom(roomId)
    \/ \E roomId \in EntityIds.room, updates \in Updates.room :
          BeginUpdateRoom(roomId, updates)
    \/ \E pairData \in PairData : BeginCreatePair(pairData)
    \/ \E pairId \in EntityIds.pair : BeginGetPair(pairId)
    \/ \E pairId \in EntityIds.pair, updates \in Updates.pair :
          BeginUpdatePair(pairId, updates)
    \/ \E messageData \in MessageData : BeginSaveMessage(messageData)
    \/ \E i \in 1..MaxInFlight : Settle(i)
    \/ Restart
    \/ StoreFails
    \/ StoreRecovers

SpecPersist == Init /\ [][NextPersist]_vars

\* ------------------------------------------------- overlapping cache misses
\* getUser and ensureRoom with their awaits as they are in the source: the cache
\* is looked up before the await, and cache.set runs after it whatever the cache
\* holds by then. The callers' frames stay in `calls` after they return. Objects
\* are compared by reference in the source; a frame's result says whether the
\* object the caller got is the one the cache holds ("cached") or an object of its
\* own that the cache no longer holds ("own", kept in `object`).
InitGet ==
    /\ userObj = [u \in UserIds |-> NewUser]
    /\ lastRun = NoRun
    /\ users = {}
    /\ rooms = [r \in RoomIds |-> NoRoom]
    /\ pairObj = <<>>
    /\ pairs = {}
    /\ sockets = [s \in SocketIds |-> IdleSocket]
    /\ timers = [r \in RoomIds |-> 0]
    /\ micro = <<>>
    /\ rounds = <<>>
    /\ now = 0
    /\ submitted = <<>>
    /\ arrived = <<>>
    /\ lastCall = NoCall
    /\ emitted = NoEmit
    /\ db = surveyed([db |-> EmptyStore, cache |-> EmptyCache], 1).db
    /\ cache = EmptyCache
    /\ calls = <<>>

\* A call and where it stands.
frame(op, arg, stage, result) ==
    [op |-> op, arg |-> arg, stage |-> stage, result |-> result, object |-> <<>>]

\* map.set(id, object) of a cache map, seen from the callers: those who hold the
\* object the map held under id now hold an object of their own.
displace(frames, op, map, id) ==
    [k \in DOMAIN frames |->
        IF frames[k].op = op /\ frames[k].arg = id /\ frames[k].result = "cached"
        THEN [frames[k] EXCEPT !.result = "own", !.object = map[id]]
        ELSE frames[k]]

\* PersistenceManager.getUser up to its return on a hit, or to
\* `await Database.getUserById(userId)` on a miss.
GetUserBegin(userId) ==
    /\ Len(calls) < MaxGets
    /\ calls' = Append(calls,
                       IF userId \in DOMAIN cache.users
                       THEN frame("getUser", userId, "returned", "cached")
                       ELSE frame("getUser", userId, "getUserById", "pending"))
    /\ UNCHANGED <<userObj, lastRun, users, rooms, pairObj, pairs, sockets, timers,
                   micro, rounds, now, submitted, arrived, lastCall, emitted, db, cache>>

\* getUser resumed with the row, or with none.
GetUserResume(i) ==
    /\ i \in DOMAIN calls
    /\ calls[i].op = "getUser" /\ calls[i].stage = "getUserById"
    /\ LET userId == calls[i].arg
       IN  IF hasRow(db.users, userId)
           THEN /\ cache' = [cache EXCEPT !.users =
                                mapSet(@, userId, transformDbUser(rowOf(db.users, userId)))]
                /\ calls' = [displace(calls, "getUser", cache.users, userId)
                               EXCEPT ![i].stage = "returned", ![i].result = "cached"]
           ELSE /\ calls' = [calls EXCEPT ![i].stage = "returned", ![i].result = "null"]
                /\ UNCHANGED cache
    /\ UNCHANGED <<userObj, lastRun, users, rooms, pairObj, pairs, sockets, timers,
                   micro, rounds, now, submitted, arrived, lastCall, emitted, db>>

\* PersistenceManager.ensureRoom up to its return on a hit, or to
\* `await Database.getRoomById(roomId)` on a miss.
EnsureRoomBegin(roomId) ==
    /\ Len(calls) < MaxGets
    /\ calls' = Append(calls,
                       IF roomId \in DOMAIN cache.rooms
                       THEN frame("ensureRoom", roomId, "returned", "cached")
                       ELSE frame("ensureRoom", roomId, "getRoomById", "pending"))
    /\ UNCHANGED <<userObj, lastRun, users, rooms, pairObj, pairs, sockets, timers,
                   micro, rounds, now, submitted, arrived, lastCall, emitted, db, cache>>

\* ensureRoom resumed after getRoomById (with the row: cache.set and return; with
\* none: on to `await Database.createRoom`), or after createRoom (the INSERT is
\* rejected when a row with this id exists by then; otherwise cache.set and return).
EnsureRoomResume(i) ==
    /\ i \in DOMAIN calls
    /\ calls[i].op = "ensureRoom" /\ calls[i].stage \in {"getRoomById", "createRoom"}
    /\ LET roomId == calls[i].arg
           stored == hasRow(db.rooms, roomId)
           dbRoom == IF stored THEN rowOf(db.rooms, roomId) ELSE roomRow(roomId)
           returned == [displace(calls, "ensureRoom", cache.rooms, roomId)
                          EXCEPT ![i].stage = "returned", ![i].result = "cached"]
       IN  IF calls[i].stage = "getRoomById" /\ ~stored
           THEN /\ calls' = [calls EXCEPT ![i].stage = "createRoom"]
                /\ UNCHANGED <<db, cache>>
           ELSE IF calls[i].stage = "createRoom" /\ stored
           THEN /\ calls' = [calls EXCEPT ![i].stage = "returned", ![i].result = "rejected"]
                /\ UNCHANGED <<db, cache>>
           ELSE /\ db' = IF stored THEN db ELSE [db EXCEPT !.rooms = Append(@, dbRoom)]
                /\ cache' = [cache EXCEPT !.rooms = mapSet(@, roomId, transformDbRoom(dbRoom))]
                /\ calls' = returned
    /\ UNCHANGED <<userObj, lastRun, users, rooms, pairObj, pairs, sockets, timers,
                   micro, rounds, now, submitted, arrived, lastCall, emitted>>

\* updateUser / updateRoom, from the call to the end: the row, then Object.assign
\* on the cached object.
UpdateCached(type, id, updates) ==
    /\ id \in EntityIds[type]
    /\ db' = update(persisted, type, id, updates).db
    /\ cache' = update(persisted, type, id, updates).cache
    /\ UNCHANGED <<userObj, lastRun, users, rooms, pairObj, pairs, sockets, timers,
                   micro, rounds, now, submitted, arrived, lastCall, emitted, calls>>

NextGet ==
    \/ \E userId \in EntityIds.user : GetUserBegin(userId)
    \/ \E i \in 1..MaxGets : GetUserResume(i)
    \/ \E roomId \in EntityIds.room : EnsureRoomBegin(roomId)
    \/ \E i \in 1..MaxGets : EnsureRoomResume(i)
    \/ \E type \in {"user", "room"} :
          \E id \in EntityIds[type], updates \in Updates[type] :
             UpdateCached(type, id, updates)

SpecGet == InitGet /\ [][NextGet]_vars

\* ------------------------------------------------ the server without its store
\* The process has started in memory-only mode: persistence.initialize rejected,
\* the store is unreachable, nothing else differs from a normal start.
InitOutage ==
    /\ userObj = [u \in UserIds |-> NewUser]
    /\ lastRun = NoRun
    /\ users = {}
    /\ rooms = [r \in RoomIds |-> NoRoom]
    /\ pairObj = <<>>
    /\ pairs = {}
    /\ sockets = [s \in SocketIds |-> IdleSocket]
    /\ timers = [r \in RoomIds |-> 0]
    /\ micro = <<>>
    /\ rounds = <<>>
    /\ now = 0
    /\ submitted = <<>>
    /\ arrived = <<>>
    /\ lastCall = NoCall
    /\ emitted = NoEmit
    /\ db = [EmptyStore EXCEPT !.up = FALSE]
    /\ cache = EmptyCache
    /\ calls = <<>>

\* The texts the participants send here: one without an offer, one with.
OutageTexts == {2, 4}

\* The negotiation flow while the store comes and goes.
NextOutage ==
    \/ Arrive(NNegotiators)
    \/ SurveySubmitFails(NNegotiators)
    \/ \E s \in SocketIds, t \in OutageTexts : ChatMessageArrive(s, t)
    \/ ChatMessageResume
    \/ \E s \in SocketIds, price \in Prices : ConfirmDeal(s, price)
    \/ StoreFails
    \/ StoreRecovers

SpecOutage == InitOutage /\ [][NextOutage]_vars

\* Duration rendering on its own.
SpecFormat == Init /\ [][NextFormat]_vars

\* ------------------------------------------- the last run, seen afterwards
\* createGamePairs appends exactly one entry to the role history and to the
\* partner record of each participant it pairs, so the records the run
\* started from are the current ones without that last entry.
RunPairs == Range(lastRun.pairs)

RunMembers == UNION {{p[1], p[2]} : p \in RunPairs}

HistoryBefore(u) ==
    IF u \in RunMembers THEN Front(userObj[u].roleHistory) ELSE userObj[u].roleHistory

PartnersBefore(u) ==
    IF u \in RunMembers THEN Front(userObj[u].previousPartners)
    ELSE userObj[u].previousPartners

WerePartners(a, b) ==
    Includes(PartnersBefore(a), b) \/ Includes(PartnersBefore(b), a)

BuyersBefore(u) == Count(HistoryBefore(u), "B")

SellersBefore(u) == Count(HistoryBefore(u), "A")

Abs(n) == IF n < 0 THEN -n ELSE n

Imbalance(hist) == Abs(Count(hist, "B") - Count(hist, "A"))

\* The participants still in availableUsers when the k-th pair's userA was drawn.
RemainingAt(k) ==
    (Range(lastRun.pool) \ UNION {{lastRun.pairs[i][1], lastRun.pairs[i][2]} : i \in 1..(k-1)})
        \ {lastRun.pairs[k][1]}

\* S can be split entirely into pairs that never partnered each other.
RECURSIVE NovelSplit(_)
NovelSplit(S) ==
    \/ S = {}
    \/ /\ Cardinality(S) >= 2
       /\ LET a == CHOOSE x \in S : \A y \in S : x <= y
          IN  \E b \in S \ {a} : ~WerePartners(a, b) /\ NovelSplit(S \ {a, b})

\* C6: a pool of N >= 2 distinct participants gives exactly floor(N/2) pairs,
\* no pair holds the same participant twice and no participant is in two pairs.
C6_PairCount ==
    Len(lastRun.pool) >= 2 =>
        /\ Len(lastRun.pairs) = Len(lastRun.pool) \div 2
        /\ \A i \in DOMAIN lastRun.pairs : lastRun.pairs[i][1] # lastRun.pairs[i][2]
        /\ \A i, j \in DOMAIN lastRun.pairs :
              i # j => {lastRun.pairs[i][1], lastRun.pairs[i][2]}
                          \cap {lastRun.pairs[j][1], lastRun.pairs[j][2]} = {}
        /\ RunMembers \subseteq Range(lastRun.pool)

C6_Witness ==
    /\ Len(lastRun.pool) = 3
    /\ Len(lastRun.pairs) = 1
    /\ \E u \in RunMembers : Len(userObj[u].roleHistory) >= 2

\* C7 as claimed: when the pool can be split entirely into never-partnered
\* pairs, no returned pair consists of previous partners.
C7_NoRepairWhenSplittable ==
    NovelSplit(Range(lastRun.pool)) =>
        \A p \in RunPairs : ~WerePartners(p[1], p[2])

\* C7 amended: a drawn participant is paired with a previous partner only when
\* none of the participants still unpaired at that draw is a never-partnered
\* option for them.
C7_RepairOnlyWhenNoneLeft ==
    \A k \in DOMAIN lastRun.pairs :
        WerePartners(lastRun.pairs[k][1], lastRun.pairs[k][2]) =>
            \A o \in RemainingAt(k) : WerePartners(lastRun.pairs[k][1], o)

C7_Witness ==
    \E k \in DOMAIN lastRun.pairs :
        /\ WerePartners(lastRun.pairs[k][1], lastRun.pairs[k][2])
        /\ Cardinality(RemainingAt(k)) >= 2

\* C8 as claimed: every participant with role history has Buyer and Seller
\* counts that differ by at most 1.
C8_AlwaysBalanced ==
    \A u \in UserIds :
        Len(userObj[u].roleHistory) >= 1 => Imbalance(userObj[u].roleHistory) <= 1

\* The preference the k-th pair's member at position m drew, and whether the
\* role they were given is that preferred role.
PrefRole(k, m) == IF lastRun.prefs[k][m] THEN "B" ELSE "A"

GotPreferred(k, m) == userObj[lastRun.pairs[k][m]].role = PrefRole(k, m)

\* C8 amended: a participant whose counts differed by at most 1 and who is given
\* the role they preferred still has counts that differ by at most 1; the
\* difference exceeds 1 only through rounds in which both partners preferred
\* the same role and the participant was given the other one.
C8_BalancedWhenPreferred ==
    \A k \in DOMAIN lastRun.pairs : \A m \in {1, 2} :
        LET u == lastRun.pairs[k][m]
        IN  /\ (GotPreferred(k, m) /\ Imbalance(HistoryBefore(u)) <= 1)
                  => Imbalance(userObj[u].roleHistory) <= 1
            /\ Imbalance(userObj[u].roleHistory) > Imbalance(HistoryBefore(u))
                  => \/ Imbalance(HistoryBefore(u)) = 0
                     \/ (lastRun.prefs[k][1] = lastRun.prefs[k][2] /\ ~GotPreferred(k, m))

C8_Witness ==
    \E k \in DOMAIN lastRun.pairs : \E m \in {1, 2} :
        LET u == lastRun.pairs[k][m]
        IN  /\ Imbalance(HistoryBefore(u)) = 1
            /\ Imbalance(userObj[u].roleHistory) = 2
            /\ ~GotPreferred(k, m)

\* C9: each participant prefers the role held less often; differing preferences
\* are both granted; on equal preferences the participant with strictly fewer
\* prior Buyer rounds becomes Buyer, and on equal Buyer counts the first-drawn.
C9_RoleAssignment ==
    \A k \in DOMAIN lastRun.pairs :
        LET a == lastRun.pairs[k][1]
            b == lastRun.pairs[k][2]
            pa == lastRun.prefs[k][1]
            pb == lastRun.prefs[k][2]
            Prefers(u, p) ==
                /\ BuyersBefore(u) < SellersBefore(u) => p = TRUE
                /\ SellersBefore(u) < BuyersBefore(u) => p = FALSE
        IN  /\ Prefers(a, pa)
            /\ Prefers(b, pb)
            /\ pa # pb => GotPreferred(k, 1) /\ GotPreferred(k, 2)
            /\ (pa = pb /\ BuyersBefore(a) < BuyersBefore(b))
                  => userObj[a].role = "B" /\ userObj[b].role = "A"
            /\ (pa = pb /\ BuyersBefore(b) < BuyersBefore(a))
                  => userObj[b].role = "B" /\ userObj[a].role = "A"
            /\ (pa = pb /\ BuyersBefore(a) = BuyersBefore(b))
                  => userObj[a].role = "B" /\ userObj[b].role = "A"

C9_Witness ==
    \E k \in DOMAIN lastRun.pairs :
        LET a == lastRun.pairs[k][1]
            b == lastRun.pairs[k][2]
        IN  /\ lastRun.prefs[k][1] = lastRun.prefs[k][2]
            /\ BuyersBefore(b) < BuyersBefore(a)
            /\ userObj[b].role = "B"
            /\ Len(HistoryBefore(a)) >= 1

\* ------------------------------------------------------- the session table
Members(q) == {pairObj[q].userA, pairObj[q].userB}

Settled(q) == pairObj[q].finalDeal.success

\* A session of the table that is neither settled nor ended.
Active(q) == q \in pairs /\ ~Settled(q) /\ ~pairObj[q].ended

\* The roles a session shows: pair.userA.role and pair.userB.role.
RolesOf(q) == <<userObj[pairObj[q].userA].role, userObj[pairObj[q].userB].role>>

\* C1 as claimed: each participant is userA or userB of at most one session of
\* the session table that is neither settled nor ended.
C1_OneActiveSession ==
    \A u \in UserIds :
        Cardinality({q \in pairs : Active(q) /\ u \in Members(q)}) <= 1

\* C2 as claimed: every session of the session table has two distinct
\* participants whose roles are one Buyer and one Seller, at every moment of
\* its life.
C2_TwoOppositeRoles ==
    \A q \in pairs :
        /\ pairObj[q].userA # pairObj[q].userB
        /\ {RolesOf(q)[1], RolesOf(q)[2]} = {"A", "B"}

\* Both members have confirmed a price in session q and their last ones agree.
LastPricesEqual(sub, q) ==
    \A u, v \in DOMAIN sub[q] : sub[q][u] # <<>> /\ sub[q][u] = sub[q][v]

\* C3 as claimed: a confirmDeal in an unsettled session gives it a Deal record
\* if and only if, with that confirmation, both participants' last-submitted
\* prices for that session are equal.
C3_DealIffEqualPrices ==
    [][\A q \in pairs :
          (~Settled(q) /\ submitted'[q] # submitted[q])
              => (pairObj'[q].finalDeal.success <=> LastPricesEqual(submitted', q))]_vars

\* C4 as claimed: once a session is settled, no step changes its finalDeal.
C4_DealWrittenOnce ==
    [][\A q \in DOMAIN pairObj :
          Settled(q) => pairObj'[q].finalDeal = pairObj[q].finalDeal]_vars

\* C5 as claimed: a session that endRound has marked as ended without a deal
\* never gets a Deal record afterwards.
C5_NoDealAfterEnded ==
    [][\A q \in DOMAIN pairObj :
          (pairObj[q].ended /\ ~Settled(q)) => ~pairObj'[q].finalDeal.success]_vars

\* The logged messages of session q authored in role r with an extracted offer.
OffersInRole(q, r) ==
    SelectSeq(pairObj[q].messages, LAMBDA m : m.role = r /\ m.offer # NullOffer)

\* C10: latestOffers[r] of every session is the extracted offer of the latest
\* message authored in role r whose extracted offer is not null, and null if
\* there is none; a message without an offer leaves it as it was.
C10_LatestOfferPerRole ==
    \A q \in DOMAIN pairObj : \A r \in {"A", "B"} :
        pairObj[q].latestOffers[r] =
            IF OffersInRole(q, r) = <<>> THEN NullOffer
            ELSE Last(OffersInRole(q, r)).offer

C10_Witness ==
    \E q \in DOMAIN pairObj : \E i, j \in DOMAIN pairObj[q].messages :
        LET mi == pairObj[q].messages[i]
            mj == pairObj[q].messages[j]
        IN  /\ i < j
            /\ mi.role = mj.role
            /\ mi.offer # NullOffer
            /\ mj.offer = NullOffer
            /\ pairObj[q].latestOffers[mi.role] = mi.offer

\* The validated arrivals for session q, the handlers of q still suspended, and
\* what the log of q shows of each logged message.
ArrivedIn(q) == SelectSeq(arrived, LAMBDA a : a.pairId = q)

WaitingIn(q) == SelectSeq(micro, LAMBDA f : f.pairId = q)

Logged(q) ==
    [i \in DOMAIN pairObj[q].messages |->
        [pairId |-> q, userId |-> pairObj[q].messages[i].userId,
         message |-> pairObj[q].messages[i].message]]

\* C11: every validated chat message is in its session's log exactly once, in
\* arrival order, with or without an extracted offer: the log is the sequence
\* of the session's arrivals up to the handlers still suspended.
C11_LogInArrivalOrder ==
    \A q \in DOMAIN pairObj :
        /\ Len(Logged(q)) + Len(WaitingIn(q)) = Len(ArrivedIn(q))
        /\ Logged(q) = SubSeq(ArrivedIn(q), 1, Len(Logged(q)))

C11_Witness ==
    \E q \in DOMAIN pairObj :
        /\ Len(pairObj[q].messages) = 2
        /\ pairObj[q].messages[1].offer = NullOffer
        /\ pairObj[q].messages[2].offer # NullOffer
        /\ pairObj[q].messages[1].userId = pairObj[q].messages[2].userId
        /\ Logged(q) = ArrivedIn(q)

\* C12: durationSeconds of every Deal record is confirmedAt - startedAt in whole
\* seconds (the nearest whole second, a half counting up), and is not negative.
C12_DurationInWholeSeconds ==
    \A q \in DOMAIN pairObj :
        Settled(q) =>
            LET deal == pairObj[q].finalDeal
                ms == deal.confirmedAt - pairObj[q].startedAt
            IN  /\ deal.startedAt = pairObj[q].startedAt
                /\ deal.durationSeconds >= 0
                /\ deal.durationSeconds * 1000 - 500 <= ms
                /\ ms < deal.durationSeconds * 1000 + 500

C12_Witness ==
    \E q \in DOMAIN pairObj :
        /\ Settled(q)
        /\ pairObj[q].startedAt > 0
        /\ pairObj[q].finalDeal.confirmedAt - pairObj[q].startedAt = 500
        /\ pairObj[q].finalDeal.durationSeconds = 1

\* The space-separated parts of a rendered duration, left to right.
RECURSIVE Parts(_)
Parts(text) ==
    IF ~Includes(text, " ") THEN <<text>>
    ELSE LET k == IndexOf(text, " ")
         IN  <<SubSeq(text, 1, k - 1)>> \o Parts(SubSeq(text, k + 1, Len(text)))

\* A part is a decimal number without leading zeros followed by one unit letter.
WellFormedPart(part) ==
    /\ Len(part) >= 2
    /\ \A i \in 1..(Len(part) - 1) : IsDigit(part[i])
    /\ Len(part) > 2 => part[1] # "0"

PartValue(part) == parseDigits(Front(part))

PartUnit(part) == Last(part)

\* C13: formatDuration(s) renders "<s>s" below a minute, "<m>m <r>s" below an
\* hour and "<h>h <m>m <r>s" from an hour on, with m < 60, r < 60 and
\* h*3600 + m*60 + r = s; 45 -> "45s", 125 -> "2m 5s", 3725 -> "1h 2m 5s".
C13_FormatDuration ==
    lastCall.fn = "formatDuration" =>
        LET s == lastCall.arg
            parts == Parts(lastCall.result)
            units == [i \in DOMAIN parts |-> PartUnit(parts[i])]
            v == [i \in DOMAIN parts |-> PartValue(parts[i])]
        IN  /\ \A i \in DOMAIN parts : WellFormedPart(parts[i])
            /\ s < 60 => units = <<"s">> /\ v[1] = s
            /\ (60 <= s /\ s < 3600) =>
                  units = <<"m", "s">> /\ v[2] < 60 /\ v[1] * 60 + v[2] = s
            /\ s >= 3600 =>
                  /\ units = <<"h", "m", "s">>
                  /\ v[2] < 60 /\ v[3] < 60
                  /\ v[1] * 3600 + v[2] * 60 + v[3] = s
            /\ s = 45 => lastCall.result = <<"4", "5", "s">>
            /\ s = 125 => lastCall.result = <<"2", "m", " ", "5", "s">>
            /\ s = 3725 => lastCall.result = <<"1", "h", " ", "2", "m", " ", "5", "s">>

C13_Witness ==
    /\ lastCall.fn = "formatDuration"
    /\ lastCall.arg = 3725
    /\ lastCall.result = <<"1", "h", " ", "2", "m", " ", "5", "s">>

\* ------------------------------------------------------- rejected events
\* The handler step put out errors to its connection and nothing else.
IsError(e) == e.events # <<>> /\ \A i \in DOMAIN e.events : e.events[i].event = "error"

\* C14: a step in which a handler answers an event with an error leaves the
\* participants (pending confirmation prices included), the rooms (round counters
\* included), the sessions, the connections' data and the suspended handlers
\* exactly as they were.
C14_RejectionChangesNothing ==
    [][(IsError(emitted') /\ (emitted' # emitted \/ Rejections))
         => UNCHANGED <<userObj, users, rooms, pairObj, pairs, sockets, timers, micro,
                        rounds, submitted, db, cache>>]_vars

\* A chatMessage or confirmDeal was turned away with "Pair not found" while a
\* participant holds a pending confirmation price and another session is gone.
C14_Witness ==
    /\ IsError(emitted)
    /\ emitted.events[1].message = "Pair not found"
    /\ \E u \in users : userObj[u].confirmPrice # NoPrice
    /\ \E q \in DOMAIN pairObj : q \notin pairs

\* ------------------------------------------------- the cache and the store
\* What getPair returns for a pair that is stored but not cached.
rereadPair(pairId) == reconstructPair(db, rowOf(db.pairs, pairId))

\* C15: between calls, clearing the cache and reading a cached pair again by its
\* id would give an object equal, field for field, to the cached one.
C15_RereadEqualsCached ==
    calls = <<>> =>
        \A pairId \in DOMAIN cache.pairs :
            /\ hasRow(db.pairs, pairId)
            /\ rereadPair(pairId) = cache.pairs[pairId]

\* C16: every session the moderator's startRound has put in the session table
\* has a stored pair row with the same id.
C16_SessionBackedByRow ==
    \A q \in pairs : ~pairObj[q].isAutoPair => hasRow(db.pairs, q)

\* The column an update key is stored under: its translation, or the key itself.
columnOf(type, key) ==
    IF key \in DOMAIN KeyColumns[type] THEN KeyColumns[type][key] ELSE key

\* An update call settles in this step and merges its update into the cache.
UpdateMerged ==
    /\ calls # <<>>
    /\ calls' = <<>>
    /\ calls[1].op = "update"
    /\ calls[1].id \in DOMAIN cache[tableOf[calls[1].type]]
    /\ cache' = [cache EXCEPT ![tableOf[calls[1].type]][calls[1].id] =
                    assign(@, calls[1].arg)]

\* C17: when an update call merges its update into the cached object, every key
\* of the update is in the stored row under its column, with the same value.
C17_MergedFieldsAreStored ==
    [][UpdateMerged =>
         LET call == calls[1]
             row == rowOf(db'[tableOf[call.type]], call.id)
         IN  \A key \in DOMAIN call.arg :
                /\ columnOf(call.type, key) \in DOMAIN row
                /\ row[columnOf(call.type, key)] = call.arg[key]]_vars

\* C18: while an update call is suspended at its await, the cached object it is
\* about already holds the values of the update.
C18_CacheShowsUpdateInFlight ==
    \A i \in DOMAIN calls :
        (calls[i].op = "update" /\ calls[i].id \in DOMAIN cache[tableOf[calls[i].type]])
        => \A key \in DOMAIN calls[i].arg :
              /\ key \in DOMAIN cache[tableOf[calls[i].type]][calls[i].id]
              /\ cache[tableOf[calls[i].type]][calls[i].id][key] = calls[i].arg[key]

\* ------------------------------------------------------ failing store calls
\* The events of one name a handler step put out.
eventsNamed(e, name) == SelectSeq(e.events, LAMBDA ev : ev.event = name)

\* The handler step logged a persistence call that rejected.
Failed(e) == eventsNamed(e, "console.error") # <<>>

\* C19: a chatMessage or a settling confirmDeal whose persistence call rejects
\* still puts out chatLog and chatMessageAck (respectively dealConfirmed), and the
\* session holds the appended message, the new latest offer and the deal.
C19_FailureDoesNotBlock ==
    [][(Failed(emitted') /\ (emitted' # emitted \/ pairObj' # pairObj)) =>
         LET failure == eventsNamed(emitted', "console.error")[1].message
             chatLogs == eventsNamed(emitted', "chatLog")
             acks == eventsNamed(emitted', "chatMessageAck")
             deals == eventsNamed(emitted', "dealConfirmed")
         IN  IF failure = "Failed to save deal to database"
             THEN /\ Len(deals) = 1
                  /\ pairObj'[deals[1].room].finalDeal.success
                  /\ pairObj'[deals[1].room].finalDeal.price = deals[1].price
             ELSE /\ Len(chatLogs) = 1 /\ Len(acks) = 1
                  /\ LET q == chatLogs[1].room
                         payload == chatLogs[1].payload
                     IN  /\ pairObj'[q].messages = Append(pairObj[q].messages, payload)
                         /\ payload.offer # NullOffer =>
                               pairObj'[q].latestOffers[payload.role] = payload.offer]_vars

\* A deal was settled while the store was unreachable, in a session whose chat
\* holds a message with an offer: the failure was logged and dealConfirmed went out.
C19_Witness ==
    /\ Failed(emitted)
    /\ eventsNamed(emitted, "dealConfirmed") # <<>>
    /\ LET q == eventsNamed(emitted, "dealConfirmed")[1].room
       IN  /\ pairObj[q].finalDeal.success
           /\ \E i \in DOMAIN pairObj[q].messages : pairObj[q].messages[i].offer # NullOffer
           /\ pairObj[q].latestOffers # [A |-> NullOffer, B |-> NullOffer]

\* A survey submission is answered in this step.
SurveyAnswered == SurveySubmit(NNegotiators) \/ SurveySubmitFails(NNegotiators)

\* C20: while the store is unreachable, a survey submission creates a participant.
C20_SurveyCreatesParticipant ==
    [][(~db.up /\ SurveyAnswered) => users' # users]_vars

\* --------------------------------------------- the session and its stored row
\* C21: when confirmDeal settles a session and the store accepts the write (no
\* failure is logged), the pairs row with the session's id holds the deal and the
\* status completed.
C21_DealStoredUnderSessionId ==
    (eventsNamed(emitted, "dealConfirmed") # <<>> /\ ~Failed(emitted)) =>
        LET q == eventsNamed(emitted, "dealConfirmed")[1].room
        IN  /\ hasRow(db.pairs, q)
            /\ rowOf(db.pairs, q).final_deal = pairObj[q].finalDeal
            /\ rowOf(db.pairs, q).status = "completed"

\* --------------------------------------------------------------- disconnect
\* The other participant of the session q.
partnerOf(q, u) == IF pairObj[q].userA = u THEN pairObj[q].userB ELSE pairObj[q].userA

\* C22: the disconnect of a participant who is in a session clears the
\* participant's socketId, leaves the partner without a session and ends the
\* session without a deal.
C22_DisconnectAbandonsSession ==
    [][\A s \in SocketIds :
         (Disconnect(s) /\ inSession(s)) =>
            LET u == socketUser(s)
                q == userObj[u].pairId
            IN  /\ userObj'[u].socketId = Undefined
                /\ userObj'[partnerOf(q, u)].pairId = Undefined
                /\ pairObj'[q].ended
                /\ ~pairObj'[q].finalDeal.success]_vars

\* --------------------------------------------------------------- room reset
\* C23: after moderator:resetRoom every member of the room is still in the
\* participant table (so that joinRoom finds it) and has no session, the room's
\* sessions are gone from the session table, and no deal was written.
C23_ResetKeepsParticipants ==
    [][\A s \in SocketIds, roomId \in RoomIds :
         ResetRoom(s, roomId) =>
            /\ \A u \in Range(rooms[roomId].users) :
                  /\ u \in users'
                  /\ userObj'[u].pairId = Undefined
            /\ \A q \in pairs' : pairObj'[q].roomId # roomId
            /\ \A q \in DOMAIN pairObj : pairObj'[q].finalDeal = pairObj[q].finalDeal]_vars

\* ------------------------------------------------------------- round starts
\* The sessions a step puts into the session table.
Started == pairs' \ pairs

\* C24: an accepted startRound adds one to the room's round counter, and every
\* session one of its calls creates carries the round that call set the counter
\* to and the product at index (round - 1) modulo the number of products.
C24_SessionsCarryTheirRound ==
    [][/\ \A s \in SocketIds, r \in RoomIds :
            StartRoundBegin(s, r, MaxStarts) =>
                rooms'[r].currentRound = rooms[r].currentRound + 1
       /\ \A i \in DOMAIN rounds :
            (StartRoundPairs(i) \/ StartRoundNext(i)) =>
                \A q \in Started :
                    /\ pairObj'[q].round = rounds[i].advancedTo
                    /\ pairObj'[q].productIndex =
                          (rounds[i].advancedTo - 1) % NProducts]_vars

\* ---------------------------------------------------------------- round end
\* C25: an authorized moderator:endRound marks the sessions of its room that
\* have no deal as ended at the current time, and leaves every other session
\* and every deal as they were.
C25_EndRoundEndsOpenSessionsOfRoom ==
    [][\A s \in SocketsEnd, roomId \in RoomsEnd :
         EndRound(s, roomId) =>
            \A q \in DOMAIN pairObj :
                IF q \in pairs /\ pairObj[q].roomId = roomId /\ pairObj[q].finalDeal = NoDeal
                THEN /\ pairObj'[q].ended
                     /\ pairObj'[q].endedAt = now
                     /\ pairObj'[q].finalDeal = NoDeal
                ELSE pairObj'[q] = pairObj[q]]_vars

\* A round was ended in one room: its session without a deal is ended, while the
\* settled session of the other room is not.
C25_Witness ==
    \E q, other \in pairs :
        /\ pairObj[q].roomId # pairObj[other].roomId
        /\ pairObj[q].ended /\ pairObj[q].endedAt = now /\ pairObj[q].finalDeal = NoDeal
        /\ pairObj[other].finalDeal # NoDeal /\ ~pairObj[other].ended

\* ------------------------------------------------------ who is drawn from
\* C26: every participant a step puts into a new session was, before the step, a
\* member of the session's room, connected, and without a session.
C26_OnlyWaitingAreDrawn ==
    [][\A q \in Started :
         \A u \in {pairObj'[q].userA, pairObj'[q].userB} :
            /\ Includes(rooms[pairObj'[q].roomId].users, u)
            /\ userObj[u].socketId # Undefined
            /\ userObj[u].pairId = Undefined]_vars

\* ---------------------------------------------------------- the odd one out
\* C27: a run of createGamePairs on fewer than two participants returns no
\* pair, and whoever is in no returned pair has the same role, role history,
\* partner record and session reference as before the run (lastRun' is the run
\* of the step).
C27_UnpairedAreUntouched ==
    [][LET paired == UNION {{p[1], p[2]} : p \in Range(lastRun'.pairs)}
       IN  /\ Len(lastRun'.pool) < 2 => lastRun'.pairs = <<>>
           /\ \A u \in UserIds \ paired :
                 /\ userObj'[u].role = userObj[u].role
                 /\ userObj'[u].roleHistory = userObj[u].roleHistory
                 /\ userObj'[u].previousPartners = userObj[u].previousPartners
                 /\ userObj'[u].pairId = userObj[u].pairId]_vars

\* A run on three participants left out one who had been paired in earlier runs.
C27_Witness ==
    /\ Len(lastRun.pool) = 3
    /\ Len(lastRun.pairs) = 1
    /\ \E u \in Range(lastRun.pool) \ RunMembers :
          /\ userObj[u].roleHistory # <<>>
          /\ userObj[u].role # NoRole

\* ------------------------------------------------------- the partner ledger
\* C28: after any runs of createGamePairs, b is in a's partner record exactly
\* when a is in b's, and no participant is in a partner record twice.
C28_LedgerSymmetricIdempotent ==
    \A a, b \in UserIds :
        /\ Includes(userObj[a].previousPartners, b)
              <=> Includes(userObj[b].previousPartners, a)
        /\ Count(userObj[a].previousPartners, b) <= 1

\* ------------------------------------------------------ revised confirmations
\* C29: when a participant confirms a price in a session without a deal whose
\* other member has confirmed in it, the price is compared with the other
\* member's latest confirmation only: the session is settled, at that price, if
\* the two are equal, and stays without a deal otherwise.
C29_LatestPriceIsCompared ==
    [][\A s \in SocketIds, price \in Prices :
         (/\ ConfirmDeal(s, price)
          /\ pairObj[userObj[socketUser(s)].pairId].finalDeal = NoDeal
          /\ submitted[userObj[socketUser(s)].pairId]
                       [partnerOf(userObj[socketUser(s)].pairId, socketUser(s))] # <<>>)
         => LET q == userObj[socketUser(s)].pairId
                latest == submitted[q][partnerOf(q, socketUser(s))][1]
            IN  IF price = latest
                THEN /\ pairObj'[q].finalDeal.success
                     /\ pairObj'[q].finalDeal.price = latest
                ELSE pairObj'[q].finalDeal = NoDeal]_vars

\* Participant 1 has confirmed the first price and then the second, after which
\* participant 2 confirmed the first: the session has no deal.
C29_Witness ==
    \E q \in pairs :
        /\ submitted[q][1] = <<Revision[2]>>
        /\ submitted[q][2] = <<Revision[1]>>
        /\ userObj[1].confirmPrice = Revision[2]
        /\ userObj[2].confirmPrice = Revision[1]
        /\ pairObj[q].finalDeal = NoDeal

\* --------------------------------------------------- an offer in plain words
\* C30: extractOffer on "I can sell this for $500" with role A gives the offer
\* 500, and its candidate 500 has the context offer_phrase and a confidence of at
\* least the 0.9 of an offer phrase.
C30_SellThisFor500 ==
    (/\ lastCall.fn = "extractOffer"
     /\ lastCall.arg.text = Texts[1]
     /\ lastCall.arg.role = "A")
    => /\ lastCall.result.offer = 500
       /\ \E i \in DOMAIN lastCall.result.numbersFound :
             /\ lastCall.result.numbersFound[i].value = 500
             /\ lastCall.result.numbersFound[i].context = "offer_phrase"
             /\ lastCall.result.numbersFound[i].confidence >= OfferPhraseConfidence

\* ------------------------------------------------------------ the selection
\* C31: the selected offer is null when no candidate is above the floor;
\* otherwise the value of a candidate of highest confidence among those tagged
\* offer_phrase, if there is one; otherwise, for role A the greatest and for role
\* B the least value among the candidates with at least 0.8 of the top
\* confidence; without a role the value of a candidate of top confidence.
C31_Selection ==
    lastCall.fn = "selectOffer" =>
        LET numbers == lastCall.arg.numbers
            role == lastCall.arg.role
            offer == lastCall.result
            valid == {i \in DOMAIN numbers : numbers[i].confidence > ConfidenceFloor}
            strong == {i \in valid : numbers[i].context = "offer_phrase"}
            best(S) == {i \in S : \A j \in S : numbers[j].confidence <= numbers[i].confidence}
            near == {i \in valid :
                       \A j \in valid :
                          numbers[i].confidence * 10 >= numbers[j].confidence * 8}
        IN  IF valid = {} THEN offer = NullOffer
            ELSE IF strong # {} THEN \E i \in best(strong) : offer = numbers[i].value
            ELSE IF role = "A"
                 THEN /\ \E i \in near : offer = numbers[i].value
                      /\ \A i \in near : numbers[i].value <= offer
            ELSE IF role = "B"
                 THEN /\ \E i \in near : offer = numbers[i].value
                      /\ \A i \in near : numbers[i].value >= offer
            ELSE \E i \in best(valid) : offer = numbers[i].value

\* A call for a seller with a weak offer phrase next to a stronger neutral
\* candidate of greater value: the offer phrase is selected.
C31_Witness ==
    /\ lastCall.fn = "selectOffer"
    /\ lastCall.arg.role = "A"
    /\ Len(lastCall.arg.numbers) = 2
    /\ lastCall.arg.numbers[1].context = "offer_phrase"
    /\ lastCall.arg.numbers[1].confidence = 3000
    /\ lastCall.arg.numbers[1].value = 250
    /\ lastCall.arg.numbers[2].context = "neutral"
    /\ lastCall.arg.numbers[2].confidence = 4680
    /\ lastCall.arg.numbers[2].value = 300
    /\ lastCall.result = 250

\* ------------------------------------------------------------ model numbers
\* Where the tokens of text.match(/\$?\d+/g) start, left to right (1-based).
RECURSIVE matchStarts(_, _)
matchStarts(text, i) ==
    IF i > Len(text) THEN <<>>
    ELSE IF text[i] = "$" /\ i < Len(text) /\ IsDigit(text[i + 1])
    THEN <<i>> \o matchStarts(text, digitsEnd(text, i + 1) + 1)
    ELSE IF IsDigit(text[i])
    THEN <<i>> \o matchStarts(text, digitsEnd(text, i) + 1)
    ELSE matchStarts(text, i + 1)

\* The token that starts at position p comes right after a product word and a blank.
FollowsProductWord(text, p) ==
    \E w \in DOMAIN productWords :
        endsWith(toLowerCase(SubSeq(text, 1, p - 1)), productWords[w] \o <<" ">>)

\* C32: every numeric token right after a product word is scored as a
\* model_number with confidence 0.05, and a text all of whose numeric tokens are
\* such tokens gives a null offer.
C32_ModelNumbersSuppressed ==
    lastCall.fn = "extractOffer" =>
        LET text == lastCall.arg.text
            starts == matchStarts(text, 1)
            numbers == lastCall.result.numbersFound
        IN  /\ \A i \in DOMAIN starts :
                  FollowsProductWord(text, starts[i]) =>
                      /\ numbers[i].context = "model_number"
                      /\ numbers[i].confidence = ModelConfidence
            /\ (starts # <<>> /\ \A i \in DOMAIN starts :
                                    FollowsProductWord(text, starts[i]))
                  => lastCall.result.offer = NullOffer

\* --------------------------------------------------- the first confirmation
\* C33: a session with a deal has a confirmation from each of its two members
\* made in that session; the first confirmDeal of a session never settles it.
C33_DealNeedsBothConfirmations ==
    \A q \in pairs :
        pairObj[q].finalDeal # NoDeal =>
            \A u \in {pairObj[q].userA, pairObj[q].userB} : submitted[q][u] # <<>>

\* ------------------------------------------------- the session of a participant
\* C34: the pairId of every participant in the participant table is empty or
\* names a session of the session table that has the participant as userA or
\* userB.
C34_PairIdNamesOwnSession ==
    \A u \in users :
        userObj[u].pairId # Undefined =>
            /\ userObj[u].pairId \in pairs
            /\ u \in {pairObj[userObj[u].pairId].userA, pairObj[userObj[u].pairId].userB}

\* ------------------------------------------------------ the room of a participant
\* C35: a participant is in the member list of a room only if that room is the
\* participant's roomId (so in the list of at most one room).
C35_MemberOfOwnRoomOnly ==
    \A u \in users :
        \A r \in DOMAIN rooms :
            Includes(rooms[r].users, u) => userObj[u].roomId = r

\* ------------------------------------------------------- one object per id
\* C36: every caller of getUser or ensureRoom that got an object holds the
\* object the cache holds under that id.
C36_CallersShareCachedObject ==
    \A i \in DOMAIN calls : calls[i].result # "own"

\* ------------------------------------------------ chat goes out in arrival order
\* The i-th waiting handler's saveMessage settles in this step: the handler emits
\* chatLog and ends.
broadcasts(i) ==
    /\ i \in DOMAIN calls
    /\ calls[i].op = "saveMessage"
    /\ calls' = SubSeq(calls, 1, i - 1) \o SubSeq(calls, i + 1, Len(calls))

\* C37: the messages of a session reach the store and are broadcast as chatLog in
\* the order they arrived: when a handler is through saveMessage and emits
\* chatLog, no handler of an earlier message of the same session still waits.
C37_BroadcastInArrivalOrder ==
    [][\A i \in DOMAIN calls :
          broadcasts(i) =>
             \A j \in DOMAIN calls :
                calls[j].frame.pairId = calls[i].frame.pairId
                   => calls[j].seq >= calls[i].seq]_vars

\* ------------------------------------------------ moderator events need the token
\* C38: a connection that never presented the moderator token, whatever else it
\* sent, cannot make moderator:startRound, moderator:endRound or
\* moderator:resetRoom act: no step is one of these handlers getting past its
\* guard for such a connection.
C38_TokenlessCannotModerate ==
    [][\A s \in Tokenless, r \in RoomIds :
          /\ ~StartRoundBegin(s, r, MaxRounds)
          /\ ~EndRound(s, r)
          /\ ~ResetRoom(s, r)]_vars

\* A connection without the token has registered, its room holds two users, and
\* its moderator event was turned away.
C38_Witness ==
    \E s \in Tokenless :
        /\ emitted = emit(s, <<[event |-> "error",
                                message |-> "Unauthorized - moderator access required"]>>)
        /\ sockets[s].data.userId \in RegisteredIds
        /\ \E r \in RoomIds : rooms[r].exists /\ Len(rooms[r].users) >= 2

\* ------------------------------------------------ those who wait get a partner
\* C39: whenever a room holds two or more connected participants without a
\* session, eventually at most one of them is left without one.
C39_WaitingGetPaired ==
    \A r \in RoomIds :
        (Len(availablePlayers(r)) >= 2) ~> (Len(availablePlayers(r)) <= 1)

\* ------------------------------------------------ deals of the rooms module
\* C40: in the rooms module a pair has a final deal only when both of its members
\* have confirmed.
C40_DealNeedsBothMembers ==
    \A q \in pairs :
        pairObj[q].finalDeal # NoDeal =>
            Range(pairObj[q].users) \subseteq pairObj[q].confirmedBy

====
